---------------------------- MODULE Spec2Model ----------------------------
(***************************************************************************)
(* Container pool (DockerContainerProvider), command execution protocol    *)
(* and installation orchestrator (InstallationController) of the           *)
(* integration-agent repository, as state machines.                        *)
(*                                                                         *)
(* Every `await` of the TypeScript source is a suspension point: the code  *)
(* between two awaits runs atomically on the single-threaded event loop    *)
(* and is one action here; what the container runtime answers (healthy or  *)
(* not, create succeeded or not, which stream event fires) is chosen       *)
(* nondeterministically.                                                   *)
(***************************************************************************)
EXTENDS Integers, Sequences, FiniteSets, TLC

\* ------------------------------------------------------------------ bounds
NumCallers == 2      \* concurrent users of the pool
MaxPoolSize == 2     \* options.maxPoolSize of the modelled provider
MaxClock == 1        \* distinct readings of new Date()
MaxIds == 3          \* container ids the runtime hands out

Callers == 1..NumCallers
Att == 0                         \* the process running installIntegration
Procs == Callers \cup {Att}
Images == {"ubuntu:22.04", "alpine:3"}
NoId == 0
NoImage == "none"                \* no getContainer call in progress

VARIABLES
  pool,      \* DockerContainerProvider.pool: sequence of ContainerPoolItem
  now,       \* the wall clock read by new Date()
  nextId,    \* next container id the runtime assigns
  pc,        \* per process: position inside getContainer / executeCommand
  img,       \* per process: the image passed to getContainer
  sel,       \* per process: pooledContainer / lruContainer held across an await
  env,       \* per process: the container id getContainer returned, which is
             \* the containerId of its executeCommand call
  rpc,       \* per process: position of its executeCommand stream handlers
  timer,     \* per process: state of the setTimeout armed by executeCommand
  releases,  \* per process: releaseContainer calls made by that executeCommand
  outcome,   \* per process: how its executeCommand promise was settled
  apc,       \* installIntegration: the await it is suspended at
  opts,      \* installIntegration: the options of the request
  failures,  \* withErrorHandling: how each failed attempt of the operation failed
  rbRunning, \* executeRollback promises started by onError and not awaited
  result,    \* installIntegration: the {success, message, logs} it resolved with
  trace,     \* history: the phases the attempt entered, in order
  acquireCalls, \* history: getContainer calls made by the attempt
  pool0,     \* history: the pool table when the request arrived
  unhandled, \* a promise rejected with nobody awaiting it (unhandledRejection)
  script,    \* the generated install script: what the pattern scan reports
             \* for it, and whether its text holds the license key
  gateCalls, \* history: validateScript / scan calls made by the attempt
  text,      \* the string handed to a security utility, as a sequence of characters
  report,    \* what scanScriptForVulnerabilities returned for text
  masked,    \* what maskSensitiveData returned for text, and which of the two
             \* functions of that name produced it
  tmpl,      \* a template lookup: the template files that exist, the os
             \* parameter of the request, and what findTemplate came to
  cond,      \* a template condition, the parameter set it is evaluated
             \* against, and what evaluateCondition returned
  sweep,     \* the idle-eviction sweep: its timer, where it stands, and what
             \* it removed
  drain,     \* the cleanup() call: where it stands and which entries it attempted
  retry,     \* a withErrorHandling call: which of the two wrappers, its
             \* options, and what it did so far
  health,    \* an isContainerHealthy call: what the runtime answers and what it returned
  cache,     \* the generator's script cache and the generateScript calls made so far
  requests   \* the asynchronous controller: its status map and its calls in progress

poolVars == <<pool, now, nextId, pc, img, sel, env, rpc, timer, releases, outcome>>

\* the security utilities run on their own: no pool or orchestrator step
\* touches them
scanVars == <<text, report, masked, tmpl, cond, sweep, drain, retry, health, cache, requests>>

instVars == <<apc, opts, failures, rbRunning, result, trace, acquireCalls, pool0, unhandled, script, gateCalls, scanVars>>

\* ------------------------------------------------------- pool pure helpers
Item(id, image, t) == [id |-> id, busy |-> TRUE, image |-> image, lastUsed |-> t]

PoolIds(pl) == {pl[i].id : i \in 1..Len(pl)}

\* Array.indexOf / findIndex by container id: 0 when absent
IndexOf(pl, id) ==
  IF \E i \in 1..Len(pl) : pl[i].id = id
  THEN CHOOSE i \in 1..Len(pl) : pl[i].id = id /\ \A j \in 1..(i-1) : pl[j].id # id
  ELSE 0

\* this.pool.find(item => !item.busy && item.image === image)
getAvailableContainer(pl, image) ==
  LET ok(i) == ~pl[i].busy /\ pl[i].image = image IN
  IF \E i \in 1..Len(pl) : ok(i)
  THEN pl[CHOOSE i \in 1..Len(pl) : ok(i) /\ \A j \in 1..(i-1) : ~ok(j)].id
  ELSE NoId

\* [...this.pool].sort(by lastUsed)[0]: the oldest entry, busy or not; the
\* sort is stable, so the first of several equally old entries wins
findLeastRecentlyUsedContainer(pl) ==
  IF Len(pl) = 0 THEN NoId
  ELSE pl[CHOOSE i \in 1..Len(pl) :
            /\ \A j \in 1..Len(pl) : pl[i].lastUsed <= pl[j].lastUsed
            /\ \A j \in 1..(i-1) : pl[j].lastUsed # pl[i].lastUsed].id

\* A release that flips the flag instead of clearing it
releaseToggles(pl, id, t) ==
  LET k == IndexOf(pl, id) IN
  [pool |-> IF k = 0 THEN pl
            ELSE [pl EXCEPT ![k].busy = ~pl[k].busy, ![k].lastUsed = t],
   threw |-> FALSE]

\* releaseContainer: mark the first entry with that id idle and stamp it;
\* an unknown id is logged and ignored
releaseContainer(pl, id, t) ==
  LET k == IndexOf(pl, id) IN
  [pool |-> IF k = 0 THEN pl
            ELSE [pl EXCEPT ![k].busy = FALSE, ![k].lastUsed = t],
   threw |-> FALSE]

\* item.busy = true; item.lastUsed = new Date() on the object held across the
\* health check: it changes the table only if the object is still in it
MarkBusy(pl, id, t) ==
  LET k == IndexOf(pl, id) IN
  IF k = 0 THEN pl ELSE [pl EXCEPT ![k].busy = TRUE, ![k].lastUsed = t]

\* this.pool.splice(index, 1) when index !== -1
RemoveItem(pl, id) ==
  LET k == IndexOf(pl, id) IN
  IF k = 0 THEN pl ELSE SubSeq(pl, 1, k-1) \o SubSeq(pl, k+1, Len(pl))

\* this.pool[index] = item, index = indexOf(lruContainer); index -1 sets a
\* property named "-1" on the array and leaves its elements alone
ReplaceItem(pl, id, item) ==
  LET k == IndexOf(pl, id) IN
  IF k = 0 THEN pl ELSE [pl EXCEPT ![k] = item]

\* The synchronous tail of getContainer after the reuse branch: create when
\* there is room, otherwise pick the replacement victim (or throw on an
\* empty pool)
CreateOrRecycle(pl) ==
  IF Len(pl) < MaxPoolSize THEN [pc |-> "creating", sel |-> NoId]
  ELSE LET lru == findLeastRecentlyUsedContainer(pl) IN
       IF lru = NoId THEN [pc |-> "failed", sel |-> NoId]
       ELSE [pc |-> "stopping", sel |-> lru]

\* ------------------------------------------------------------------- init
\* no process is inside getContainer or executeCommand
ProcsAtRest ==
  /\ pc = [p \in Procs |-> "idle"]
  /\ img = [p \in Procs |-> NoImage]
  /\ sel = [p \in Procs |-> NoId]
  /\ env = [p \in Procs |-> NoId]
  /\ rpc = [p \in Procs |-> "none"]
  /\ timer = [p \in Procs |-> "off"]
  /\ releases = [p \in Procs |-> 0]
  /\ outcome = [p \in Procs |-> "none"]

\* the provider after construction
PoolInit ==
  /\ pool = <<>>
  /\ now = 0
  /\ nextId = 1
  /\ ProcsAtRest

NoOpts == [dryRun |-> FALSE, verify |-> FALSE, rollback |-> FALSE, image |-> NoImage]
NoResult == [success |-> FALSE, cause |-> "none", logs |-> <<>>]

NoReport == [valid |-> FALSE, issues |-> <<>>, done |-> FALSE]
NoMask == [out |-> <<>>, by |-> "none"]
NoTmpl == [store |-> {}, os |-> "absent", by |-> "none", found |-> "none", error |-> "none"]

\* the provider after construction: the sweep timer is set, no sweep and no
\* cleanup() is under way
NoSweep ==
  [timer |-> TRUE, pc |-> "idle", queue |-> <<>>, counts |-> <<>>,
   before |-> <<>>, at |-> 0, stopped |-> <<>>, removed |-> <<>>]
NoHealth ==
  [inspect |-> "ok", running |-> FALSE, status |-> "absent", age |-> 0,
   exec |-> "ok", start |-> "ok", stream |-> "end", execInspect |-> "ok",
   exitCode |-> [known |-> FALSE, code |-> 0], out |-> "none"]
\* a script generator after construction: nothing rendered, nothing cached
NoCache ==
  [files |-> <<>>, max |-> 1, entries |-> <<>>, n |-> 0,
   last |-> [integration |-> "none", params |-> <<>>, hit |-> FALSE,
             out |-> <<>>, error |-> "none"]]
\* an asynchronous controller after construction: no request, no call
NoRequests ==
  [req |-> <<>>, returned |-> <<>>, get |-> [id |-> 0, out |-> "none"]]
NoRetry ==
  [by |-> "none", retries |-> 0, retryDelay |-> 0, pc |-> "idle", attempt |-> 0,
   calls |-> 0, waits |-> <<>>, errors |-> <<>>, out |-> "none"]
NoDrain ==
  [pc |-> "idle", queue |-> <<>>, copy |-> <<>>, attempted |-> {}, failed |-> {},
   overlapped |-> {}]

\* no security utility has been called
NoCond == [condition |-> <<>>, params |-> <<>>, out |-> FALSE, done |-> FALSE]

ScanIdle ==
  /\ text = <<>>
  /\ report = NoReport
  /\ masked = NoMask
  /\ tmpl = NoTmpl
  /\ cond = NoCond
  /\ sweep = NoSweep
  /\ drain = NoDrain
  /\ retry = NoRetry
  /\ health = NoHealth
  /\ cache = NoCache
  /\ requests = NoRequests

NoScript == [scan |-> "none", secret |-> FALSE]

\* no installation request has arrived
InstIdle ==
  /\ apc = "init"
  /\ opts = NoOpts
  /\ failures = <<>>
  /\ rbRunning = 0
  /\ result = NoResult
  /\ trace = <<>>
  /\ acquireCalls = 0
  /\ pool0 = pool
  /\ unhandled = FALSE
  /\ script = NoScript
  /\ gateCalls = 0

\* ------------------------------------------------------------ getContainer
\* time passes between two readings of new Date()
Tick ==
  /\ now < MaxClock
  /\ now' = now + 1
  /\ UNCHANGED <<pool, nextId, pc, img, sel, env, rpc, timer, releases, outcome>>
  /\ UNCHANGED instVars

\* getContainer returns id (its locals go out of scope)
Return(p, id) ==
  /\ pc' = [pc EXCEPT ![p] = "leased"]
  /\ env' = [env EXCEPT ![p] = id]
  /\ img' = [img EXCEPT ![p] = NoImage]
  /\ sel' = [sel EXCEPT ![p] = NoId]

\* getContainer throws ContainerError
Throw(p) ==
  /\ pc' = [pc EXCEPT ![p] = "failed"]
  /\ img' = [img EXCEPT ![p] = NoImage]
  /\ sel' = [sel EXCEPT ![p] = NoId]
  /\ UNCHANGED env

\* the code after the reuse branch, run on table pl with no await in
\* between
FallThrough(p, image, pl) ==
  LET to == CreateOrRecycle(pl) IN
  IF to.pc = "failed"
  THEN Throw(p)
  ELSE /\ pc' = [pc EXCEPT ![p] = to.pc]
       /\ sel' = [sel EXCEPT ![p] = to.sel]
       /\ img' = [img EXCEPT ![p] = image]
       /\ UNCHANGED env

\* getContainer(image) up to its first await
CallGetContainer(p, image) ==
  /\ pc[p] = "idle"
  /\ LET a == getAvailableContainer(pool, image) IN
     IF a # NoId
     THEN /\ pc' = [pc EXCEPT ![p] = "health"]
          /\ sel' = [sel EXCEPT ![p] = a]
          /\ img' = [img EXCEPT ![p] = image]
          /\ UNCHANGED env
     ELSE FallThrough(p, image, pool)
  /\ UNCHANGED <<pool, now, nextId, rpc, timer, releases, outcome>>

\* getContainer called by a pool user
GetContainer(p, image) ==
  /\ CallGetContainer(p, image)
  /\ UNCHANGED instVars

\* await isContainerHealthy(...) answers
HealthDone(p, healthy) ==
  /\ pc[p] = "health"
  /\ IF healthy
     THEN /\ pool' = MarkBusy(pool, sel[p], now)
          /\ Return(p, sel[p])
     ELSE /\ pc' = [pc EXCEPT ![p] = "removing"]
          /\ UNCHANGED <<pool, env, img, sel>>
  /\ UNCHANGED <<now, nextId, rpc, timer, releases, outcome>>
  /\ UNCHANGED instVars

\* await container.remove({force}) of the unhealthy container is over
\* (its failure is only logged); the entry is spliced out and the code
\* falls through to create / recycle
RemoveUnhealthyDone(p) ==
  /\ pc[p] = "removing"
  /\ pool' = RemoveItem(pool, sel[p])
  /\ FallThrough(p, img[p], pool')
  /\ UNCHANGED <<now, nextId, rpc, timer, releases, outcome>>
  /\ UNCHANGED instVars

\* pullImage, createContainer and start are over: push the new entry
CreateDone(p, ok) ==
  /\ pc[p] = "creating"
  /\ IF ok
     THEN /\ nextId <= MaxIds
          /\ pool' = Append(pool, Item(nextId, img[p], now))
          /\ nextId' = nextId + 1
          /\ Return(p, nextId)
     ELSE /\ Throw(p)
          /\ UNCHANGED <<pool, nextId>>
  /\ UNCHANGED <<now, rpc, timer, releases, outcome>>
  /\ UNCHANGED instVars

\* stop (failure ignored) and remove({force}) of the victim are over; a
\* failed remove throws
RecycleRemoveDone(p, ok) ==
  /\ pc[p] = "stopping"
  /\ IF ok
     THEN /\ pc' = [pc EXCEPT ![p] = "replacing"]
          /\ UNCHANGED <<img, sel, env>>
     ELSE Throw(p)
  /\ UNCHANGED <<pool, now, nextId, rpc, timer, releases, outcome>>
  /\ UNCHANGED instVars

\* the replacement container is pulled, created and started
ReplaceDone(p, ok) ==
  /\ pc[p] = "replacing"
  /\ IF ok
     THEN /\ nextId <= MaxIds
          /\ pool' = ReplaceItem(pool, sel[p], Item(nextId, img[p], now))
          /\ nextId' = nextId + 1
          /\ Return(p, nextId)
     ELSE /\ Throw(p)
          /\ UNCHANGED <<pool, nextId>>
  /\ UNCHANGED <<now, rpc, timer, releases, outcome>>
  /\ UNCHANGED instVars

\* ---------------------------------------------------------- executeCommand
\* resolve / reject of the promise executeCommand returned: only the first
\* settlement is delivered to the caller
Settle(p, how) ==
  /\ pc' = [pc EXCEPT ![p] = IF pc[p] = "running" THEN "delivered" ELSE @]
  /\ outcome' = [outcome EXCEPT ![p] = IF pc[p] = "running" THEN how ELSE @]

\* this.releaseContainer(containerId) called from executeCommand
Release(p) ==
  /\ pool' = releaseContainer(pool, env[p], now).pool
  /\ releases' = [releases EXCEPT ![p] = @ + 1]

\* executeCommand(containerId, command) up to await container.exec(...)
ExecuteCommand(p) ==
  /\ pc[p] = "leased"
  /\ pc' = [pc EXCEPT ![p] = "running"]
  /\ rpc' = [rpc EXCEPT ![p] = "starting"]
  /\ UNCHANGED <<pool, now, nextId, img, sel, env, timer, releases, outcome>>
  /\ UNCHANGED instVars

\* container.exec / exec.start answered: on success the timer is armed and
\* the stream handlers attached; on failure the catch block releases and
\* rethrows
ExecStartDone(p, ok) ==
  /\ rpc[p] = "starting"
  /\ IF ok
     THEN /\ rpc' = [rpc EXCEPT ![p] = "streaming"]
          /\ timer' = [timer EXCEPT ![p] = "armed"]
          /\ UNCHANGED <<pool, releases, pc, outcome>>
     ELSE /\ Release(p)
          /\ Settle(p, "startError")
          /\ rpc' = [rpc EXCEPT ![p] = "closed"]
          /\ UNCHANGED timer
  /\ UNCHANGED <<now, nextId, img, sel, env>>
  /\ UNCHANGED instVars

\* the setTimeout callback: release and reject; the stream handlers stay
\* attached
Timeout(p) ==
  /\ timer[p] = "armed"
  /\ timer' = [timer EXCEPT ![p] = "fired"]
  /\ Release(p)
  /\ Settle(p, "timeout")
  /\ UNCHANGED <<now, nextId, img, sel, env, rpc>>
  /\ UNCHANGED instVars

\* stream 'end': clearTimeout, then await exec.inspect()
StreamEnd(p) ==
  /\ rpc[p] = "streaming"
  /\ rpc' = [rpc EXCEPT ![p] = "inspecting"]
  /\ timer' = [timer EXCEPT ![p] = IF @ = "armed" THEN "cleared" ELSE @]
  /\ UNCHANGED <<pool, now, nextId, pc, img, sel, env, releases, outcome>>
  /\ UNCHANGED instVars

\* exec.inspect() answered: release and resolve, or reject without release
InspectDone(p, ok) ==
  /\ rpc[p] = "inspecting"
  /\ rpc' = [rpc EXCEPT ![p] = "closed"]
  /\ IF ok
     THEN /\ Release(p)
          /\ Settle(p, "ok")
     ELSE /\ Settle(p, "inspectError")
          /\ UNCHANGED <<pool, releases>>
  /\ UNCHANGED <<now, nextId, img, sel, env, timer>>
  /\ UNCHANGED instVars

\* stream 'error': clearTimeout, release, reject
StreamError(p) ==
  /\ rpc[p] = "streaming"
  /\ rpc' = [rpc EXCEPT ![p] = "closed"]
  /\ timer' = [timer EXCEPT ![p] = IF @ = "armed" THEN "cleared" ELSE @]
  /\ Release(p)
  /\ Settle(p, "streamError")
  /\ UNCHANGED <<now, nextId, img, sel, env>>
  /\ UNCHANGED instVars

\* the record of a finished executeCommand call is dropped
ClearRun(p) ==
  /\ rpc' = [rpc EXCEPT ![p] = "none"]
  /\ timer' = [timer EXCEPT ![p] = "off"]
  /\ releases' = [releases EXCEPT ![p] = 0]
  /\ outcome' = [outcome EXCEPT ![p] = "none"]
  /\ env' = [env EXCEPT ![p] = NoId]

\* a pool user got its result or error and comes back for another
\* container once the stream of its previous command has closed
CallerDone(p) ==
  /\ pc[p] \in {"delivered", "failed"}
  /\ rpc[p] \in {"none", "closed"}
  /\ pc' = [pc EXCEPT ![p] = "idle"]
  /\ ClearRun(p)
  /\ UNCHANGED <<pool, now, nextId, img, sel>>
  /\ UNCHANGED instVars

\* the steps of DockerContainerProvider.getContainer on behalf of process p
PoolStep(p) ==
  \/ \E healthy \in BOOLEAN : HealthDone(p, healthy)
  \/ RemoveUnhealthyDone(p)
  \/ \E ok \in BOOLEAN : CreateDone(p, ok)
  \/ \E ok \in BOOLEAN : RecycleRemoveDone(p, ok)
  \/ \E ok \in BOOLEAN : ReplaceDone(p, ok)

\* the events of an executeCommand call of process p
RunStep(p) ==
  \/ \E ok \in BOOLEAN : ExecStartDone(p, ok)
  \/ Timeout(p)
  \/ StreamEnd(p)
  \/ \E ok \in BOOLEAN : InspectDone(p, ok)
  \/ StreamError(p)

vars == <<poolVars, instVars>>

Init == PoolInit /\ InstIdle /\ ScanIdle

Next ==
  \/ Tick
  \/ \E p \in Callers :
       \/ \E image \in Images : GetContainer(p, image)
       \/ PoolStep(p)
       \/ ExecuteCommand(p)
       \/ RunStep(p)
       \/ CallerDone(p)

Spec == Init /\ [][Next]_vars

\* ------------------------------------------------- a release call by itself
MaxReleases == 2     \* releaseContainer calls made in a row on one id

\* the tables the provider can hold: entries with distinct runtime ids,
\* stamped no later than the clock
PoolsOfLen(n) ==
  {pl \in [1..n -> [id : 1..MaxIds, busy : BOOLEAN, image : Images,
                    lastUsed : 0..MaxClock]] :
     \A i, j \in 1..n : i # j => pl[i].id # pl[j].id}

InitRelease ==
  /\ now \in 0..MaxClock
  /\ pool \in UNION {PoolsOfLen(n) : n \in 0..MaxPoolSize}
  /\ \A i \in 1..Len(pool) : pool[i].lastUsed <= now
  /\ nextId = MaxIds + 1
  /\ pc = [p \in Procs |-> "idle"]
  /\ img = [p \in Procs |-> NoImage]
  /\ sel = [p \in Procs |-> NoId]
  /\ env \in {[p \in Procs |-> IF p = Att THEN id ELSE NoId] : id \in 1..(MaxIds + 1)}
  /\ rpc = [p \in Procs |-> "none"]
  /\ timer = [p \in Procs |-> "off"]
  /\ releases = [p \in Procs |-> 0]
  /\ outcome = [p \in Procs |-> "none"]
  /\ InstIdle
  /\ ScanIdle

\* releaseContainer(env[Att]) is called once more
ReleaseCall ==
  /\ releases[Att] < MaxReleases
  /\ Release(Att)
  /\ UNCHANGED <<now, nextId, pc, img, sel, env, rpc, timer, outcome>>
  /\ UNCHANGED instVars

NextRelease == Tick \/ ReleaseCall

SpecRelease == InitRelease /\ [][NextRelease]_vars

\* ------------------------------------------------- InstallationController
DefaultRetries == 3  \* withErrorHandling: retries = 3 unless the caller sets it

\* what the orchestrator reads from InstallationOptions: dryRun,
\* verify !== false, rollbackOnError !== false, baseImage || 'ubuntu:22.04'
OptionSets ==
  [dryRun : BOOLEAN, verify : BOOLEAN, rollback : BOOLEAN, image : Images]

Returned(success, cause, logs) ==
  /\ apc' = "returned"
  /\ result' = [success |-> success, cause |-> cause, logs |-> logs]

\* the catch block of installIntegration: success false, logs []
Caught(cause) == Returned(FALSE, cause, <<>>)

\* What a call of the Executor (executeScript, verifyInstallation,
\* executeRollback) leaves in the pool table: it runs its script through
\* executeCommand, which releases the container; a call that throws may
\* have released it or not
ExecutorReturns(released) ==
  /\ pool' = IF released THEN releaseContainer(pool, env[Att], now).pool ELSE pool
  /\ UNCHANGED <<now, nextId, pc, img, sel, env, rpc, timer, releases, outcome>>

\* installIntegration(query, options) up to await this.generateScript(...);
\* a query that is too long or names no valid integration throws before it
InstallIntegration(o, valid) ==
  /\ apc = "init"
  /\ IF valid
     THEN /\ apc' = "generating"
          /\ opts' = o
          /\ trace' = <<"GeneratingScript">>
          /\ UNCHANGED result
     ELSE /\ Caught("request")
          /\ trace' = <<"Failed">>
          /\ UNCHANGED opts
  /\ UNCHANGED <<failures, rbRunning, acquireCalls, pool0, unhandled, script, gateCalls, scanVars>>
  /\ UNCHANGED poolVars

\* generateScript settled: a failure is caught; a dry run returns the
\* script; otherwise getContainer(image) is called. The script goes on as
\* generated: scan is what the pattern scan would say about it, secret
\* whether the template put parameters.licenseKey into its text
GenerateDone(ok, scan, secret) ==
  /\ apc = "generating"
  /\ IF ~ok
     THEN /\ Caught("generate")
          /\ trace' = Append(trace, "Failed")
          /\ UNCHANGED <<acquireCalls, poolVars>>
     ELSE IF opts.dryRun
     THEN /\ Returned(TRUE, "none", <<"script">>)
          /\ trace' = Append(trace, "Done")
          /\ UNCHANGED <<acquireCalls, poolVars>>
     ELSE /\ apc' = "provisioning"
          /\ trace' = Append(trace, "Provisioning")
          /\ acquireCalls' = acquireCalls + 1
          /\ CallGetContainer(Att, opts.image)
          /\ UNCHANGED result
  /\ script' = IF ok THEN [scan |-> scan, secret |-> secret] ELSE script
  /\ UNCHANGED <<opts, failures, rbRunning, pool0, unhandled, gateCalls, scanVars>>

\* onError?.(lastError, attempt): the async callback is called and its
\* promise dropped, so an enabled rollback is left running
OnErrorStarts(o) == IF o.rollback THEN 1 ELSE 0

\* a catch block that starts the rollback when getContainer fails
ProvisionFailureRollsBack ==
  /\ apc = "provisioning"
  /\ pc[Att] \in {"leased", "failed"}
  /\ IF pc[Att] = "leased"
     THEN /\ apc' = "installing"
          /\ trace' = Append(trace, "Executing")
          /\ UNCHANGED result
     ELSE /\ Caught("acquire")
          /\ trace' = trace \o (IF OnErrorStarts(opts) > 0
                                  THEN <<"RollingBack", "Failed">>
                                  ELSE <<"Failed">>)
  /\ UNCHANGED <<opts, failures, rbRunning, acquireCalls, pool0, unhandled, script, gateCalls, scanVars>>
  /\ UNCHANGED poolVars

\* getContainer settled: on an id, executeInstallation starts
\* withErrorHandling, whose operation calls executor.executeScript; a
\* ContainerError is caught
ProvisionDone ==
  /\ apc = "provisioning"
  /\ pc[Att] \in {"leased", "failed"}
  /\ IF pc[Att] = "leased"
     THEN /\ apc' = "installing"
          /\ trace' = Append(trace, "Executing")
          /\ UNCHANGED result
     ELSE /\ Caught("acquire")
          /\ trace' = Append(trace, "Failed")
  /\ UNCHANGED <<opts, failures, rbRunning, acquireCalls, pool0, unhandled, script, gateCalls, scanVars>>
  /\ UNCHANGED poolVars

\* withErrorHandling: attempt < retries is false, the loop is over
RetriesExhausted(n) == n >= DefaultRetries

\* executeScript settled inside withErrorHandling. Success goes on to
\* verification (or returns). A non-zero exit or a throw calls onError,
\* then either waits for the retry or rethrows into the catch block
InstallDone(out, released) ==
  /\ apc = "installing"
  /\ out = "throw" \/ released
  /\ ExecutorReturns(released)
  /\ IF out = "ok"
     THEN /\ IF opts.verify
             THEN /\ apc' = "verifying"
                  /\ trace' = Append(trace, "Verifying")
                  /\ UNCHANGED result
             ELSE /\ Returned(TRUE, "none", <<"install">>)
                  /\ trace' = Append(trace, "Completed")
          /\ UNCHANGED <<failures, rbRunning>>
     ELSE /\ failures' = Append(failures, out)
          /\ rbRunning' = rbRunning + OnErrorStarts(opts)
          /\ IF RetriesExhausted(Len(failures))
             THEN /\ Caught("install")
                  /\ trace' = trace \o (IF OnErrorStarts(opts) > 0
                                          THEN <<"RollingBack", "Failed">>
                                          ELSE <<"Failed">>)
             ELSE /\ apc' = "backoff"
                  /\ trace' = trace \o (IF OnErrorStarts(opts) > 0
                                          THEN <<"RollingBack">> ELSE <<>>)
                  /\ UNCHANGED result
  /\ UNCHANGED <<opts, acquireCalls, pool0, unhandled, script, gateCalls, scanVars>>

\* the retry delay is over: the operation runs executeScript again
RetryInstall ==
  /\ apc = "backoff"
  /\ apc' = "installing"
  /\ trace' = Append(trace, "Executing")
  /\ UNCHANGED <<opts, failures, rbRunning, result, acquireCalls, pool0, unhandled, script, gateCalls, scanVars>>
  /\ UNCHANGED poolVars

\* an executeRollback started by onError settles; the promise of the async
\* onError callback was dropped, so a rejection is handled by nobody
OnErrorRollbackDone(out, released) ==
  /\ rbRunning > 0
  /\ out = "throw" \/ released
  /\ rbRunning' = rbRunning - 1
  /\ ExecutorReturns(released)
  /\ unhandled' = (unhandled \/ out = "throw")
  /\ UNCHANGED <<apc, opts, failures, result, trace, acquireCalls, pool0, script, gateCalls, scanVars>>

\* verifyInstallation settled: success returns; a failed verification
\* awaits executeRollback when enabled; a throw is caught
VerifyDone(out, released) ==
  /\ apc = "verifying"
  /\ out = "throw" \/ released
  /\ ExecutorReturns(released)
  /\ IF out = "ok"
     THEN /\ Returned(TRUE, "none", <<"install">>)
          /\ trace' = Append(trace, "Completed")
     ELSE IF out = "throw"
     THEN /\ Caught("verifyError")
          /\ trace' = Append(trace, "Failed")
     ELSE IF opts.rollback
     THEN /\ apc' = "vrollback"
          /\ trace' = Append(trace, "RollingBack")
          /\ UNCHANGED result
     ELSE /\ Returned(FALSE, "verify", <<"install", "verify">>)
          /\ trace' = Append(trace, "Failed")
  /\ UNCHANGED <<opts, failures, rbRunning, acquireCalls, pool0, unhandled, script, gateCalls, scanVars>>

\* the awaited executeRollback after a failed verification settled: its
\* boolean is ignored, its throw is caught by installIntegration
RollbackAfterVerifyDone(out, released) ==
  /\ apc = "vrollback"
  /\ out = "throw" \/ released
  /\ ExecutorReturns(released)
  /\ IF out = "throw"
     THEN Caught("rollbackError")
     ELSE Returned(FALSE, "verify", <<"install", "verify">>)
  /\ trace' = Append(trace, "Failed")
  /\ UNCHANGED <<opts, failures, rbRunning, acquireCalls, pool0, unhandled, script, gateCalls, scanVars>>

\* the tables a request can find: entries with distinct ids, stamped no
\* later than the clock, leased to others or idle
InitInstall ==
  /\ now \in 0..MaxClock
  /\ pool \in UNION {PoolsOfLen(n) : n \in 0..MaxPoolSize}
  /\ \A i \in 1..Len(pool) : pool[i].id = i /\ pool[i].lastUsed <= now
  /\ nextId = Len(pool) + 1
  /\ ProcsAtRest
  /\ InstIdle
  /\ ScanIdle

NextInstall ==
  \/ Tick
  \/ \E o \in OptionSets, valid \in BOOLEAN : InstallIntegration(o, valid)
  \/ \E ok \in BOOLEAN, scan \in {"valid", "invalid"}, secret \in BOOLEAN :
       GenerateDone(ok, scan, secret)
  \/ PoolStep(Att)
  \/ ProvisionDone
  \/ \E out \in {"ok", "nonzero", "throw"}, released \in BOOLEAN : InstallDone(out, released)
  \/ RetryInstall
  \/ \E out \in {"ok", "fail", "throw"}, released \in BOOLEAN : OnErrorRollbackDone(out, released)
  \/ \E out \in {"ok", "fail", "throw"}, released \in BOOLEAN : VerifyDone(out, released)
  \/ \E out \in {"ok", "fail", "throw"}, released \in BOOLEAN : RollbackAfterVerifyDone(out, released)

SpecInstall == InitInstall /\ [][NextInstall]_vars

\* --------------------------------- the InstallationController of part_010
\* installIntegration of the older controller: getContainer is called
\* first, before any script is generated
LegacyInstallIntegration(o, valid) ==
  /\ apc = "init"
  /\ IF valid
     THEN /\ apc' = "provisioning"
          /\ opts' = o
          /\ trace' = <<"Provisioning">>
          /\ acquireCalls' = acquireCalls + 1
          /\ CallGetContainer(Att, o.image)
          /\ UNCHANGED result
     ELSE /\ Caught("request")
          /\ trace' = <<"Failed">>
          /\ UNCHANGED <<opts, acquireCalls, poolVars>>
  /\ UNCHANGED <<failures, rbRunning, pool0, unhandled, script, gateCalls, scanVars>>

\* getContainer settled: generateScript is called on an id
LegacyProvisionDone ==
  /\ apc = "provisioning"
  /\ pc[Att] \in {"leased", "failed"}
  /\ IF pc[Att] = "leased"
     THEN /\ apc' = "generating"
          /\ trace' = Append(trace, "GeneratingScript")
          /\ UNCHANGED result
     ELSE /\ Caught("acquire")
          /\ trace' = Append(trace, "Failed")
  /\ UNCHANGED <<opts, failures, rbRunning, acquireCalls, pool0, unhandled, script, gateCalls, scanVars>>
  /\ UNCHANGED poolVars

\* generateScript of that controller passes an identifier `container` that
\* is not in scope: the call throws, is wrapped and caught
LegacyGenerateDone ==
  /\ apc = "generating"
  /\ Caught("generate")
  /\ trace' = Append(trace, "Failed")
  /\ UNCHANGED <<opts, failures, rbRunning, acquireCalls, pool0, unhandled, script, gateCalls, scanVars>>
  /\ UNCHANGED poolVars

NextLegacy ==
  \/ Tick
  \/ \E o \in OptionSets, valid \in BOOLEAN : LegacyInstallIntegration(o, valid)
  \/ PoolStep(Att)
  \/ LegacyProvisionDone
  \/ LegacyGenerateDone

SpecLegacy == InitInstall /\ [][NextLegacy]_vars

\* ----------------------------------------------------------------- claims
Busy(pl, id) == \E i \in 1..Len(pl) : pl[i].id = id /\ pl[i].busy

AllBusy(pl) == \A i \in 1..Len(pl) : pl[i].busy

NumBusy(pl) == Cardinality({i \in 1..Len(pl) : pl[i].busy})

\* getContainer returned id to p and the command p runs on it has not
\* released it
Holds(p, id) ==
  /\ pc[p] \in {"leased", "running"}
  /\ env[p] = id
  /\ releases[p] = 0

\* C1: whenever getContainer returns an id to a caller, no other caller
\* holds that id with its entry still marked busy.
C1_NoDoubleLease ==
  [][\A p \in Procs :
       (pc[p] # "leased" /\ pc'[p] = "leased") =>
         ~\E q \in Procs \ {p} : Holds(q, env'[p]) /\ Busy(pool, env'[p])]_vars

\* C2: the pool table never holds more than MaxPoolSize entries, and never
\* more than MaxPoolSize of them are busy.
C2_CapacityRespected ==
  Len(pool) <= MaxPoolSize /\ NumBusy(pool) <= MaxPoolSize

\* C3: at the step that delivers the result or error of an executeCommand
\* call, the entry of its container is idle.
C3_IdleWhenDelivered ==
  [][\A p \in Procs :
       (pc[p] = "running" /\ pc'[p] = "delivered") => ~Busy(pool', env[p])]_vars

\* C4: an executeCommand call never releases twice, and once its stream
\* handlers are finished it has released exactly once.
C4_ReleasedExactlyOnce ==
  \A p \in Procs :
    /\ releases[p] <= 1
    /\ rpc[p] = "closed" => releases[p] = 1

\* the table without the lastUsed stamps
Flags(pl) ==
  [i \in 1..Len(pl) |-> [id |-> pl[i].id, busy |-> pl[i].busy, image |-> pl[i].image]]

\* C5: in every table, releasing an id a second time (at any later clock
\* reading) leaves the entry flags and the table size as the first release
\* left them, the entry idle and every other entry untouched; it equals one
\* release made at the later time; releasing an unknown id changes
\* nothing; no release throws.
C5_ReleaseIdempotentTotal ==
  \A id \in 1..(MaxIds + 1) : \A t \in now..MaxClock :
    LET once == releaseContainer(pool, id, now)
        twice == releaseContainer(once.pool, id, t)
    IN /\ ~once.threw /\ ~twice.threw
       /\ Len(once.pool) = Len(pool) /\ Len(twice.pool) = Len(pool)
       /\ Flags(twice.pool) = Flags(once.pool)
       /\ twice.pool = releaseContainer(pool, id, t).pool
       /\ ~Busy(once.pool, id)
       /\ \A i \in 1..Len(pool) : pool[i].id # id => once.pool[i] = pool[i]
       /\ id \notin PoolIds(pool) => once.pool = pool /\ twice.pool = pool

\* C5 witness: release has been called twice on an id of the table that was
\* busy or idle before, and the entry is idle.
C5_Witness ==
  /\ releases[Att] = 2
  /\ env[Att] \in PoolIds(pool)
  /\ Len(pool) = MaxPoolSize
  /\ ~Busy(pool, env[Att])

\* C6: the entry getContainer picks for replacement (and goes on to stop
\* and remove) is idle when it is picked.
C6_RecyclesOnlyIdle ==
  [][\A p \in Procs :
       (pc[p] # "stopping" /\ pc'[p] = "stopping") => ~Busy(pool, sel'[p])]_vars

\* C7: a getContainer call made while the table is full and every entry is
\* busy throws at once and leaves the table as it was.
C7_BackpressureWhenAllBusy ==
  [][\A p \in Procs :
       (pc[p] = "idle" /\ pc'[p] # "idle"
          /\ Len(pool) >= MaxPoolSize /\ AllBusy(pool)) =>
         (pc'[p] = "failed" /\ pool' = pool)]_vars

\* the number of times phase ph was entered
Entered(ph) == Cardinality({i \in 1..Len(trace) : trace[i] = ph})

\* the phase changes of the orchestrator's state machine; leaving out a
\* disabled Verifying or RollingBack, a generation failure, and an executor
\* error during verification are taken as covered
AllowedTransition(a, b) ==
  \/ a = b
  \/ <<a, b>> \in {<<"GeneratingScript", "Done">>,
                   <<"GeneratingScript", "Provisioning">>,
                   <<"GeneratingScript", "Failed">>,
                   <<"Provisioning", "Executing">>,
                   <<"Provisioning", "Failed">>,
                   <<"Executing", "Verifying">>,
                   <<"Executing", "RollingBack">>,
                   <<"Verifying", "Completed">>,
                   <<"Verifying", "RollingBack">>,
                   <<"RollingBack", "Failed">>}
  \/ ~opts.verify /\ <<a, b>> = <<"Executing", "Completed">>
  \/ ~opts.rollback /\ <<a, b>> \in {<<"Executing", "Failed">>, <<"Verifying", "Failed">>}
  \/ result.cause = "verifyError" /\ <<a, b>> = <<"Verifying", "Failed">>

\* C8: the phases an attempt enters follow only the listed transitions,
\* and an attempt that has returned ended in Done, Completed or Failed.
C8_OnlyListedTransitions ==
  /\ \A i \in 1..(Len(trace) - 1) : AllowedTransition(trace[i], trace[i+1])
  /\ Len(trace) > 0 => trace[1] \in {"GeneratingScript", "Failed"}
  /\ apc = "returned" => trace[Len(trace)] \in {"Done", "Completed", "Failed"}

\* C9: getContainer is called only after the install script was generated
\* and never for a dry run; a dry run and a failed generation return with
\* no getContainer call made and the pool table as it was.
C9_NoAcquireBeforeScript ==
  /\ acquireCalls > 0 =>
       /\ ~opts.dryRun
       /\ \A i \in 1..Len(trace) :
            trace[i] = "Provisioning" => i > 1 /\ trace[i-1] = "GeneratingScript"
  /\ (apc = "returned" /\ (opts.dryRun \/ result.cause = "generate")) =>
       (acquireCalls = 0 /\ pool = pool0)

\* C10: an attempt with rollback enabled whose install step exited
\* non-zero has, when it returns, invoked the rollback script exactly once
\* and ended Failed.
C10_OneRollbackThenFailed ==
  (apc = "returned" /\ opts.rollback
     /\ \E i \in 1..Len(failures) : failures[i] = "nonzero") =>
    (Entered("RollingBack") = 1 /\ ~result.success /\ trace[Len(trace)] = "Failed")

\* a script was run in the environment during the attempt
ScriptRan == Entered("Executing") > 0

\* C11: a failed result returned after a script ran has non-empty logs: an
\* install failure carries the install output (and the rollback output
\* when the rollback ran, two entries), a verification failure carries the
\* install output and the verification output.
C11_FailureCarriesLogs ==
  (apc = "returned" /\ ~result.success /\ ScriptRan) =>
    /\ result.logs # <<>>
    /\ result.cause = "install" =>
         /\ result.logs[1] = "install"
         /\ Entered("RollingBack") > 0 => Len(result.logs) = 2
    /\ result.cause = "verify" => result.logs = <<"install", "verify">>

\* the last n phases of the attempt
LastPhases(n) ==
  IF Len(trace) < n THEN <<>> ELSE SubSeq(trace, Len(trace) - n + 1, Len(trace))

\* C12: a returned result never reports the failure of the rollback as its
\* cause: an attempt that rolled back after a failed verification reports
\* the verification failure, whether the rollback succeeded, failed or
\* threw.
C12_RollbackNeverMasksCause ==
  apc = "returned" =>
    /\ result.cause # "rollbackError"
    /\ LastPhases(3) = <<"Verifying", "RollingBack", "Failed">> => result.cause = "verify"

\* C13: installIntegration always resolves with a result and no promise it
\* started is ever rejected with nobody handling it.
C13_NoUnhandledRejection == ~unhandled

\* C14: when an attempt that acquired an environment has ended Completed
\* or Failed, the entry of that environment is idle.
C14_IdleWhenAttemptEnds ==
  (apc = "returned" /\ env[Att] # NoId
     /\ LastPhases(1) \in {<<"Completed">>, <<"Failed">>}) =>
    ~Busy(pool, env[Att])

\* C15: the install script is executed only after the security gate was
\* called on it and only when the scan reports it valid.
C15_GateBeforeExecution ==
  ScriptRan => (gateCalls > 0 /\ script.scan = "valid")

\* ------------------------------------------- scanScriptForVulnerabilities
MaxChunks == 3       \* pieces a scanned script is put together from
TokenLen == 40       \* /([a-z0-9]{40})/i: length of a credential-looking run

\* literal w occurs in s at position i
Lit(s, i, w) ==
  /\ i >= 1
  /\ i + Len(w) - 1 <= Len(s)
  /\ \A k \in 1..Len(w) : s[i + k - 1] = w[k]

\* \s
Space(c) == c \in {" ", "\t", "\n"}

\* . (any character but a line terminator)
Dot(c) == c # "\n"

\* [a-z], and [a-z0-9] under the i flag
Lower(c) == c \in {"a", "b", "c", "d", "e", "f", "g", "h", "i", "j", "k", "l", "m",
                   "n", "o", "p", "q", "r", "s", "t", "u", "v", "w", "x", "y", "z"}
Upper(c) == c \in {"A", "B", "C", "D", "E", "F", "G", "H", "I", "J", "K", "L", "M",
                   "N", "O", "P", "Q", "R", "S", "T", "U", "V", "W", "X", "Y", "Z"}
Digit(c) == c \in {"0", "1", "2", "3", "4", "5", "6", "7", "8", "9"}
AlNum(c) == Lower(c) \/ Upper(c) \/ Digit(c)

\* membership of a character in a character class of the patterns
InClass(cls, c) ==
  CASE cls = "space" -> Space(c)
    [] cls = "dot" -> Dot(c)
    [] cls = "alnum" -> AlNum(c)
    [] cls = "notQuote" -> c \notin {"'", "\""}

\* positions a..b-1 of s are all in the class, and there are at least min
\* of them
Run(s, a, b, cls, min) ==
  /\ b - a >= min
  /\ b - 1 <= Len(s)
  /\ \A k \in a..(b - 1) : InClass(cls, s[k])

\* /rm\s+(-r|-f|--force|--recursive)\s+\//
RmFlags == {<<"-", "r">>, <<"-", "f">>,
            <<"-", "-", "f", "o", "r", "c", "e">>,
            <<"-", "-", "r", "e", "c", "u", "r", "s", "i", "v", "e">>}
MatchRmRoot(s) ==
  \E i \in 1..Len(s) :
    /\ Lit(s, i, <<"r", "m">>)
    /\ \E j \in (i + 3)..Len(s) :
         /\ Run(s, i + 2, j, "space", 1)
         /\ \E f \in RmFlags :
              /\ Lit(s, j, f)
              /\ \E e \in (j + Len(f) + 1)..Len(s) :
                   Run(s, j + Len(f), e, "space", 1) /\ s[e] = "/"

\* /dd\s+if=.*\s+of=\/dev\/([a-z]+)/
MatchDd(s) ==
  \E i \in 1..Len(s) :
    /\ Lit(s, i, <<"d", "d">>)
    /\ \E j \in (i + 3)..Len(s) :
         /\ Run(s, i + 2, j, "space", 1)
         /\ Lit(s, j, <<"i", "f", "=">>)
         /\ \E a \in (j + 3)..Len(s), q \in (j + 4)..Len(s) :
              /\ a < q
              /\ Run(s, j + 3, a, "dot", 0)
              /\ Run(s, a, q, "space", 1)
              /\ Lit(s, q, <<"o", "f", "=", "/", "d", "e", "v", "/">>)
              /\ q + 8 <= Len(s) /\ Lower(s[q + 8])

\* /:(){ :|:& };:/ : the unescaped | makes it an alternation of the two
\* literals ":{ :" (the group is empty) and ":& };:"
MatchFork(s) ==
  \E i \in 1..Len(s) :
    \/ Lit(s, i, <<":", "{", " ", ":">>)
    \/ Lit(s, i, <<":", "&", " ", "}", ";", ":">>)

\* /wget.+\|\s*sh/ and /curl.+\|\s*sh/
MatchPiped(s, tool) ==
  \E i \in 1..Len(s) :
    /\ Lit(s, i, tool)
    /\ \E b \in (i + Len(tool) + 1)..Len(s) :
         /\ Run(s, i + Len(tool), b, "dot", 1)
         /\ s[b] = "|"
         /\ \E e \in (b + 1)..Len(s) :
              Run(s, b + 1, e, "space", 0) /\ Lit(s, e, <<"s", "h">>)

\* /([a-z0-9]{40})/i
MatchToken(s) ==
  \E i \in 1..Len(s) : Run(s, i, i + TokenLen, "alnum", TokenLen)

\* /(password|passwd|pwd)=(["'])(?!\*\*\*)([^'"]{4,})/
PasswordWords == {<<"p", "a", "s", "s", "w", "o", "r", "d">>,
                  <<"p", "a", "s", "s", "w", "d">>, <<"p", "w", "d">>}
NotQuote(c) == c \notin {"'", "\""}
MatchPassword(s) ==
  \E i \in 1..Len(s) : \E w \in PasswordWords :
    LET q == i + Len(w) + 1 IN
    /\ Lit(s, i, w)
    /\ Lit(s, i + Len(w), <<"=">>)
    /\ q <= Len(s) /\ ~NotQuote(s[q])
    /\ ~Lit(s, q + 1, <<"*", "*", "*">>)
    /\ Run(s, q + 1, q + 5, "notQuote", 4)

\* the table of (pattern, severity) pairs in the order the scan walks it:
\* dangerousPatterns, then credentialPatterns
PatternTable ==
  << [id |-> "rmRoot", severity |-> "critical"],
     [id |-> "dd", severity |-> "critical"],
     [id |-> "forkBomb", severity |-> "critical"],
     [id |-> "wgetPipe", severity |-> "high"],
     [id |-> "curlPipe", severity |-> "high"],
     [id |-> "token", severity |-> "medium"],
     [id |-> "password", severity |-> "medium"] >>

\* pattern.test(script)
Matches(id, s) ==
  CASE id = "rmRoot" -> MatchRmRoot(s)
    [] id = "dd" -> MatchDd(s)
    [] id = "forkBomb" -> MatchFork(s)
    [] id = "wgetPipe" -> MatchPiped(s, <<"w", "g", "e", "t">>)
    [] id = "curlPipe" -> MatchPiped(s, <<"c", "u", "r", "l">>)
    [] id = "token" -> MatchToken(s)
    [] id = "password" -> MatchPassword(s)

\* a scan that calls a script valid only when it found nothing
scanStrict(s) ==
  LET hit(e) == Matches(e.id, s)
      issues == SelectSeq(PatternTable, hit)
  IN [valid |-> issues = <<>>, issues |-> issues, done |-> TRUE]

\* scanScriptForVulnerabilities: one issue per matching pattern, valid when
\* none of them is critical
scanScriptForVulnerabilities(s) ==
  LET hit(e) == Matches(e.id, s)
      issues == SelectSeq(PatternTable, hit)
  IN [valid |-> ~\E k \in 1..Len(issues) : issues[k].severity = "critical",
      issues |-> issues, done |-> TRUE]

\* the pieces scanned scripts are made of
Vocabulary ==
  { <<"r", "m", " ">>,
    <<"-", "r", "f", " ">>,
    <<"-", "r", " ">>,
    <<"/">>,
    <<"e", "c", "h", "o", " ", "h", "i", "\n">>,
    <<"c", "u", "r", "l", " ", "u", " ", "|", " ", "s", "h">>,
    <<"w", "g", "e", "t", " ", "u", "|", "s", "h">>,
    <<":", "(", ")", "{", " ", ":", "|", ":", "&", " ", "}", ";", ":">>,
    <<"d", "d", " ", "i", "f", "=", "x", " ", "o", "f", "=", "/", "d", "e", "v", "/", "s", "d", "a">>,
    <<"p", "a", "s", "s", "w", "o", "r", "d", "=", "'", "h", "u", "n", "t", "e", "r", "2", "'">>,
    <<"p", "a", "s", "s", "w", "o", "r", "d", "=", "h", "u", "n", "t", "e", "r", "2">>,
    [k \in 1..TokenLen |-> "a"] }

RECURSIVE Flatten(_)
Flatten(cs) == IF cs = <<>> THEN <<>> ELSE Head(cs) \o Flatten(Tail(cs))

Scripts == {Flatten(cs) : cs \in UNION {[1..n -> Vocabulary] : n \in 0..MaxChunks}}

InitScan ==
  /\ text \in Scripts
  /\ report = NoReport
  /\ masked = NoMask
  /\ tmpl = NoTmpl
  /\ cond = NoCond
  /\ sweep = NoSweep
  /\ drain = NoDrain
  /\ retry = NoRetry
  /\ health = NoHealth
  /\ cache = NoCache
  /\ requests = NoRequests
  /\ PoolInit
  /\ InstIdle

\* scriptGenerator.validateScript(script), which is the pattern scan
ValidateScript ==
  /\ ~report.done
  /\ report' = scanScriptForVulnerabilities(text)
  /\ UNCHANGED <<text, masked, tmpl, cond, sweep, drain, retry, health, cache, requests, poolVars>>
  /\ UNCHANGED <<apc, opts, failures, rbRunning, result, trace, acquireCalls,
                 pool0, unhandled, script, gateCalls>>

NextScan == ValidateScript

SpecScan == InitScan /\ [][NextScan]_vars

\* some pattern of that severity matches s
Finds(s, severity) ==
  \E k \in 1..Len(PatternTable) :
    PatternTable[k].severity = severity /\ Matches(PatternTable[k].id, s)

\* C16: the scan reports a script valid exactly when no critical pattern
\* matches it; a script matched only by high or medium patterns is valid
\* with a non-empty issue list, and the list holds one issue per matching
\* pattern.
C16_ValidIffNoCritical ==
  report.done =>
    /\ report.valid <=> ~Finds(text, "critical")
    /\ ((Finds(text, "high") \/ Finds(text, "medium")) /\ ~Finds(text, "critical")) =>
         (report.valid /\ report.issues # <<>>)
    /\ Len(report.issues) =
         Cardinality({k \in 1..Len(PatternTable) : Matches(PatternTable[k].id, text)})

\* C16 witness: a scanned script with a download piped into a shell and a
\* credential-looking token, and nothing critical, was reported valid with
\* both issues listed.
C16_Witness ==
  /\ report.done
  /\ report.valid
  /\ \E k \in 1..Len(report.issues) : report.issues[k].severity = "high"
  /\ \E k \in 1..Len(report.issues) : report.issues[k].severity = "medium"

\* the script contains the command rm -rf /
ContainsRmRfRoot(s) ==
  \E i \in 1..Len(s) : Lit(s, i, <<"r", "m", " ", "-", "r", "f", " ", "/">>)

\* C17: every scanned script that contains rm -rf / is reported invalid.
C17_RmRfRootInvalid ==
  (report.done /\ ContainsRmRfRoot(text)) => ~report.valid

\* ------------------------------------------------------ maskSensitiveData
MaxValueLen == 3     \* characters in the value of a key=value pair

\* the smallest element of a non-empty set of positions
MinOf(S) == CHOOSE i \in S : \A j \in S : i <= j

\* String.prototype.replace(p, r) with a string p: the first occurrence of
\* p in m is replaced
ReplaceFirst(m, p, r) ==
  LET at == {j \in 1..Len(m) : Lit(m, j, p)} IN
  IF at = {} THEN m
  ELSE LET j == MinOf(at) IN
       SubSeq(m, 1, j - 1) \o r \o SubSeq(m, j + Len(p), Len(m))

\* `${firstChar}${'*'.repeat(Math.max(p1.length - 2, 0))}${lastChar}`
MaskOf(p1) ==
  <<p1[1]>> \o [k \in 1..(IF Len(p1) > 2 THEN Len(p1) - 2 ELSE 0) |-> "*"]
            \o <<p1[Len(p1)]>>

\* The key words of SENSITIVE_PATTERNS, in order (the patterns carry the i
\* flag; the texts here are lower-case keys). The seventh pattern,
\* LICENSE_KEY=['"]...['"], needs a quoted value.
SENSITIVE_PATTERNS ==
  << {<<"a", "p", "i", "_", "k", "e", "y">>, <<"a", "p", "i", " ", "k", "e", "y">>,
      <<"a", "p", "i", "k", "e", "y">>},
     {<<"p", "a", "s", "s", "w", "o", "r", "d">>, <<"p", "a", "s", "s">>},
     {<<"s", "e", "c", "r", "e", "t">>},
     {<<"t", "o", "k", "e", "n">>},
     {<<"k", "e", "y">>},
     {<<"a", "c", "c", "e", "s", "s", "_", "k", "e", "y">>,
      <<"a", "c", "c", "e", "s", "s", " ", "k", "e", "y">>,
      <<"a", "c", "c", "e", "s", "s", "k", "e", "y">>} >>

\* maskedText.replace(pattern, (match, p1) => match.replace(p1, mask)) for
\* one pattern (word)['"]?\s*[:=]\s*['"]?([^'"]+?)['"]?(?:[,\s]|$) on a text
\* with no quote, blank, comma or colon: the match starts at the leftmost
\* key word that is followed by = and a value, and p1 runs to the end
ApplyPattern(words, s) ==
  LET hit(i, w) == /\ Lit(s, i, w)
                   /\ i + Len(w) + 1 <= Len(s)
                   /\ s[i + Len(w)] = "="
      starts == {i \in 1..Len(s) : \E w \in words : hit(i, w)}
  IN IF starts = {} THEN s
     ELSE LET i == MinOf(starts)
              w == CHOOSE w \in words : hit(i, w)
              p1 == SubSeq(s, i + Len(w) + 1, Len(s))
              match == SubSeq(s, i, Len(s))
          IN SubSeq(s, 1, i - 1) \o ReplaceFirst(match, p1, MaskOf(p1))

RECURSIVE ApplyAll(_, _)
ApplyAll(pats, s) ==
  IF pats = <<>> THEN s ELSE ApplyAll(Tail(pats), ApplyPattern(Head(pats), s))

\* maskSensitiveData of the utilities in part_004: every pattern in turn
maskSensitiveData(s) == IF s = <<>> THEN s ELSE ApplyAll(SENSITIVE_PATTERNS, s)

\* sensitiveKeys default of the maskSensitiveData the logger imports
SensitiveKeys ==
  << <<"l", "i", "c", "e", "n", "s", "e", "_", "k", "e", "y">>,
     <<"a", "p", "i", "_", "k", "e", "y">>,
     <<"t", "o", "k", "e", "n">>,
     <<"p", "a", "s", "s", "w", "o", "r", "d">>,
     <<"s", "e", "c", "r", "e", "t">> >>

\* replace(/(key["'=:]{1,3})[^\s"']+(['"\s]|$)/gi, '$1***$2') on a text with
\* no quote, blank or colon: the value after key= becomes ***
StarKey(key, s) ==
  LET starts == {i \in 1..Len(s) : /\ Lit(s, i, key)
                                   /\ i + Len(key) + 1 <= Len(s)
                                   /\ s[i + Len(key)] = "="}
  IN IF starts = {} THEN s
     ELSE SubSeq(s, 1, MinOf(starts) + Len(key)) \o <<"*", "*", "*">>

RECURSIVE StarAll(_, _)
StarAll(keys, s) ==
  IF keys = <<>> THEN s ELSE StarAll(Tail(keys), StarKey(Head(keys), s))

\* maskSensitiveData of core/utils/security.ts, the one the logger uses
maskSensitiveDataCore(s) == IF s = <<>> THEN s ELSE StarAll(SensitiveKeys, s)

\* the key=value texts passed to the masking pass
MaskKeys == {SensitiveKeys[1], SensitiveKeys[2], SensitiveKeys[3], SensitiveKeys[4]}
ValueChars == {"A", "Z", "k", "e", "y"}
Values == UNION {[1..n -> ValueChars] : n \in 1..MaxValueLen}

InitMask ==
  /\ text \in {k \o <<"=">> \o v : k \in MaskKeys, v \in Values}
  /\ report = NoReport
  /\ masked = NoMask
  /\ tmpl = NoTmpl
  /\ cond = NoCond
  /\ sweep = NoSweep
  /\ drain = NoDrain
  /\ retry = NoRetry
  /\ health = NoHealth
  /\ cache = NoCache
  /\ requests = NoRequests
  /\ PoolInit
  /\ InstIdle

\* the text goes through one of the two masking functions
MaskText(by) ==
  /\ masked.by = "none"
  /\ masked' = [out |-> IF by = "utils" THEN maskSensitiveData(text)
                        ELSE maskSensitiveDataCore(text),
                by |-> by]
  /\ UNCHANGED <<text, report, tmpl, cond, sweep, drain, retry, health, cache, requests, poolVars>>
  /\ UNCHANGED <<apc, opts, failures, rbRunning, result, trace, acquireCalls,
                 pool0, unhandled, script, gateCalls>>

NextMask == \E by \in {"utils", "core"} : MaskText(by)

SpecMask == InitMask /\ [][NextMask]_vars

\* the value half of the key=value text, and what stands in its place in
\* the masked output
EqAt(s) == MinOf({i \in 1..Len(s) : s[i] = "="})
ValueOf(s) == SubSeq(s, EqAt(s) + 1, Len(s))

\* C18: the masked output of a sensitive key=value pair keeps the key, the
\* first and the last character of the value, has only '*' between them,
\* and does not contain the original value.
C18_MaskKeepsEndsHidesValue ==
  masked.by # "none" =>
    LET v == ValueOf(text)
        ov == ValueOf(masked.out)
    IN /\ SubSeq(masked.out, 1, EqAt(text)) = SubSeq(text, 1, EqAt(text))
       /\ ov # <<>>
       /\ ov[1] = v[1] /\ ov[Len(ov)] = v[Len(v)]
       /\ \A k \in 2..(Len(ov) - 1) : ov[k] = "*"
       /\ ~\E j \in 1..Len(masked.out) : Lit(masked.out, j, v)

\* the strings of a returned result that hold the license key unredacted:
\* a logs entry that is the generated script holds it when the script does
LeaksSecret(r) ==
  \E k \in 1..Len(r.logs) : r.logs[k] = "script" /\ script.secret

\* C19: no result installIntegration returns holds the unredacted license
\* key.
C19_NoSecretInResult ==
  apc = "returned" => ~LeaksSecret(result)

\* ----------------------------------- TemplateScriptGenerator.findTemplate
\* Template files are named by their level relative to the request:
\* "version" is {integration}/{os}/{version}, "os" is {integration}/{os},
\* "family" is {integration}/{os up to its first '-'} (a level of its own
\* only for an os such as ubuntu-22), "default" is the integration's own
\* template and "generic" the shared fallback.
TemplateLevels == {"version", "os", "family", "default", "generic"}
OsParams == {"absent", "plain", "dashed"}

\* the first path of the list that exists, "none" when there is none
FirstExisting(paths, store) ==
  IF \E k \in 1..Len(paths) : paths[k] \in store
  THEN paths[MinOf({k \in 1..Len(paths) : paths[k] \in store})]
  ELSE "none"

\* findTemplate of the Handlebars generator: os defaults to 'ubuntu' and
\* version to 'latest', four paths are tried in order, and none existing
\* throws ScriptGenerationError
findTemplateHbs(store, os) ==
  LET found == FirstExisting(<<"version", "os", "default", "generic">>, store) IN
  [found |-> found,
   error |-> IF found = "none" THEN "ScriptGenerationError" ELSE "none"]

\* findTemplate of the placeholder generator: with an os parameter the
\* paths {integration}/{os}/ and {integration}/{os.split('-')[0]}/ come
\* first, then the integration's own template, then generic; there is no
\* version level; null makes generateScript throw a plain Error
findTemplate(store, os) ==
  LET osPaths == CASE os = "absent" -> <<>>
                   [] os = "plain" -> <<"os", "os">>
                   [] os = "dashed" -> <<"os", "family">>
      found == FirstExisting(osPaths \o <<"default", "generic">>, store)
  IN [found |-> found, error |-> IF found = "none" THEN "Error" ELSE "none"]

\* the template directories a request can meet
InitTemplate ==
  /\ tmpl \in {[store |-> st, os |-> os, by |-> "none", found |-> "none",
                error |-> "none"] :
                 st \in SUBSET TemplateLevels, os \in OsParams}
  /\ "family" \in tmpl.store => tmpl.os = "dashed"
  /\ text = <<>>
  /\ report = NoReport
  /\ masked = NoMask
  /\ cond = NoCond
  /\ sweep = NoSweep
  /\ drain = NoDrain
  /\ retry = NoRetry
  /\ health = NoHealth
  /\ cache = NoCache
  /\ requests = NoRequests
  /\ PoolInit
  /\ InstIdle

\* generateScript looks the template up with one of the two generators
FindTemplate(by) ==
  /\ tmpl.by = "none"
  /\ LET r == IF by = "hbs" THEN findTemplateHbs(tmpl.store, tmpl.os)
              ELSE findTemplate(tmpl.store, tmpl.os)
     IN tmpl' = [tmpl EXCEPT !.by = by, !.found = r.found, !.error = r.error]
  /\ UNCHANGED <<text, report, masked, cond, sweep, drain, retry, health, cache, requests, poolVars>>
  /\ UNCHANGED <<apc, opts, failures, rbRunning, result, trace, acquireCalls,
                 pool0, unhandled, script, gateCalls>>

NextTemplate == \E by \in {"hbs", "placeholder"} : FindTemplate(by)

SpecTemplate == InitTemplate /\ [][NextTemplate]_vars

\* C20: the lookup returns the first existing template in the order
\* version, os, default, generic, whichever of them exist, and fails with a
\* script-generation error exactly when none of the four exists.
C20_FirstExistingTemplate ==
  tmpl.by # "none" =>
    LET want == FirstExisting(<<"version", "os", "default", "generic">>, tmpl.store) IN
    /\ tmpl.found = want
    /\ tmpl.error = (IF want = "none" THEN "ScriptGenerationError" ELSE "none")
\* ------------------------------------------- template condition evaluation
\* (TemplateScriptGenerator.evaluateCondition and getParamValue)

MaxTerms == 3

\* JavaScript values that reach the comparison: undefined, numbers (NaN apart),
\* strings, booleans, and the functions an object inherits from its prototype
Undefined == [t |-> "undefined", n |-> 0, s |-> <<>>, b |-> FALSE]
NumberOf(n) == [t |-> "number", n |-> n, s |-> <<>>, b |-> FALSE]
NaN == [t |-> "nan", n |-> 0, s |-> <<>>, b |-> FALSE]
StringOf(s) == [t |-> "string", n |-> 0, s |-> s, b |-> FALSE]
BooleanOf(b) == [t |-> "boolean", n |-> 0, s |-> <<>>, b |-> b]
FunctionOf(key) == [t |-> "function", n |-> 0, s |-> key, b |-> FALSE]

\* the printable characters in code-unit order (the grave accent, which no
\* condition of the vocabulary holds, left out)
Ascii ==
  <<" ", "!", "\"", "#", "$", "%", "&", "'", "(", ")", "*", "+", ",", "-", ".", "/", "0", "1", "2", "3", "4", "5", "6", "7", "8", "9", ":", ";", "<", "=", ">", "?", "@", "A", "B", "C", "D", "E", "F", "G", "H", "I", "J", "K", "L", "M", "N", "O", "P", "Q", "R", "S", "T", "U", "V", "W", "X", "Y", "Z", "[", "\\", "]", "^", "_", "a", "b", "c", "d", "e", "f", "g", "h", "i", "j", "k", "l", "m", "n", "o", "p", "q", "r", "s", "t", "u", "v", "w", "x", "y", "z", "{", "|", "}", "~">>

CodeOf(c) == CHOOSE i \in 1..Len(Ascii) : Ascii[i] = c

DigitValue(c) == CodeOf(c) - CodeOf("0")

\* String.prototype.includes
Includes(s, w) == \E i \in 1..(Len(s) + 1) : Lit(s, i, w)

\* String.prototype.trim
RECURSIVE Trim(_)
Trim(s) ==
  IF s = <<>> THEN s
  ELSE IF Space(Head(s)) THEN Trim(Tail(s))
  ELSE IF Space(s[Len(s)]) THEN Trim(SubSeq(s, 1, Len(s) - 1))
  ELSE s

\* the first two parts of condition.split(w), each trimmed (the destructuring
\* [left, right] drops any further part)
SplitTrim(s, w) ==
  LET i == MinOf({k \in 1..Len(s) : Lit(s, k, w)})
      rest == SubSeq(s, i + Len(w), Len(s))
      more == {k \in 1..Len(rest) : Lit(rest, k, w)}
  IN [left |-> Trim(SubSeq(s, 1, i - 1)),
      right |-> Trim(IF more = {} THEN rest ELSE SubSeq(rest, 1, MinOf(more) - 1))]

RECURSIVE DigitsValue(_)
DigitsValue(s) ==
  IF s = <<>> THEN 0 ELSE 10 * DigitsValue(SubSeq(s, 1, Len(s) - 1)) + DigitValue(s[Len(s)])

\* Number(expr) for a string: blank is 0, a run of digits is its value,
\* anything else of the vocabulary is NaN
NumberOfString(s) ==
  LET t == Trim(s)
  IN IF t = <<>> THEN NumberOf(0)
     ELSE IF \A k \in 1..Len(t) : Digit(t[k]) THEN NumberOf(DigitsValue(t))
     ELSE NaN

\* ToNumber of a value
ToNumber(v) ==
  CASE v.t = "number" -> v
    [] v.t = "string" -> NumberOfString(v.s)
    [] v.t = "boolean" -> NumberOf(IF v.b THEN 1 ELSE 0)
    [] OTHER -> NaN

\* the properties every object literal inherits, which `in` and params[key] see
PrototypeKeys == {<<"t", "o", "S", "t", "r", "i", "n", "g">>}

\* condition in params
HasProperty(params, key) == key \in DOMAIN params \/ key \in PrototypeKeys

\* params[key]
Lookup(params, key) ==
  IF key \in DOMAIN params THEN params[key]
  ELSE IF key \in PrototypeKeys THEN FunctionOf(key)
  ELSE Undefined

\* Boolean(v)
Truthy(v) ==
  CASE v.t = "undefined" -> FALSE
    [] v.t = "nan" -> FALSE
    [] v.t = "number" -> v.n # 0
    [] v.t = "string" -> v.s # <<>>
    [] v.t = "boolean" -> v.b
    [] OTHER -> TRUE

\* a == b (loose equality; a function compared with a primitive is compared
\* as its source text, which no string or number of the vocabulary equals)
LooseEquals(a, b) ==
  LET x == IF a.t = "boolean" THEN ToNumber(a) ELSE a
      y == IF b.t = "boolean" THEN ToNumber(b) ELSE b
  IN CASE x.t = "nan" \/ y.t = "nan" -> FALSE
       [] x.t = y.t -> x = y
       [] x.t = "undefined" \/ y.t = "undefined" -> FALSE
       [] x.t = "function" \/ y.t = "function" -> FALSE
       [] OTHER -> LET p == ToNumber(x)
                       q == ToNumber(y)
                   IN p.t = "number" /\ q.t = "number" /\ p.n = q.n

\* string comparison by code units
RECURSIVE StringLess(_, _)
StringLess(s, u) ==
  IF u = <<>> THEN FALSE
  ELSE IF s = <<>> THEN TRUE
  ELSE IF Head(s) = Head(u) THEN StringLess(Tail(s), Tail(u))
  ELSE CodeOf(Head(s)) < CodeOf(Head(u))

\* a < b (two strings compare as strings, anything else as numbers, and a
\* comparison with NaN is false)
LessThan(a, b) ==
  IF a.t = "string" /\ b.t = "string" THEN StringLess(a.s, b.s)
  ELSE LET p == ToNumber(a)
           q == ToNumber(b)
       IN p.t = "number" /\ q.t = "number" /\ p.n < q.n

\* expr.substring(1, expr.length - 1): substring swaps its arguments when
\* the first is the larger, so a lone quote character stays as it is
Unquote(expr) == IF Len(expr) = 1 THEN expr ELSE SubSeq(expr, 2, Len(expr) - 1)

StartsWith(s, w) == Lit(s, 1, w)

EndsWith(s, w) == Lit(s, Len(s) - Len(w) + 1, w)

DoubleQuote == <<"\"">>

SingleQuote == <<"'">>

getParamValue(expr, params) ==
  IF StartsWith(expr, <<"p", "a", "r", "a", "m", "s", ".">>) THEN Lookup(params, SubSeq(expr, 8, Len(expr)))
  ELSE IF StartsWith(expr, DoubleQuote) /\ EndsWith(expr, DoubleQuote)
    THEN StringOf(Unquote(expr))
  ELSE IF StartsWith(expr, SingleQuote) /\ EndsWith(expr, SingleQuote)
    THEN StringOf(Unquote(expr))
  ELSE IF NumberOfString(expr).t = "number" THEN NumberOfString(expr)
  ELSE IF expr = <<"t", "r", "u", "e">> THEN BooleanOf(TRUE)
  ELSE IF expr = <<"f", "a", "l", "s", "e">> THEN BooleanOf(FALSE)
  ELSE Lookup(params, expr)

\* nothing in the body raises for a params object, so the catch branch
\* (which also returns false) is never taken
evaluateCondition(condition, params) ==
  IF HasProperty(params, condition) THEN Truthy(Lookup(params, condition))
  ELSE IF Includes(condition, <<"=", "=">>)
    THEN LET p == SplitTrim(condition, <<"=", "=">>)
         IN LooseEquals(getParamValue(p.left, params), getParamValue(p.right, params))
  ELSE IF Includes(condition, <<"!", "=">>)
    THEN LET p == SplitTrim(condition, <<"!", "=">>)
         IN ~LooseEquals(getParamValue(p.left, params), getParamValue(p.right, params))
  ELSE IF Includes(condition, <<">">>)
    THEN LET p == SplitTrim(condition, <<">">>)
         IN LessThan(getParamValue(p.right, params), getParamValue(p.left, params))
  ELSE IF Includes(condition, <<"<">>)
    THEN LET p == SplitTrim(condition, <<"<">>)
         IN LessThan(getParamValue(p.left, params), getParamValue(p.right, params))
  ELSE FALSE

\* the pieces conditions are put together from
CondVocabulary ==
  { <<"m", "y", "s", "q", "l", "_", "p", "o", "r", "t">>, <<"d", "e", "b", "i", "a", "n", "_", "b", "a", "s", "e", "d">>, <<"z", "z">>, <<"y", "y">>, <<"p", "a", "r", "a", "m", "s", ".", "z", "z">>,
    <<"p", "a", "r", "a", "m", "s", ".", "m", "y", "s", "q", "l", "_", "p", "o", "r", "t">>, <<"3", "3", "0", "6">>, <<"'", "a", "'">>, <<"t", "r", "u", "e">>, <<"t", "o", "S", "t", "r", "i", "n", "g">>,
    <<" ", "=", "=", " ">>, <<" ", "!", "=", " ">>, <<" ", ">", " ">>, <<" ", "<", " ">>, <<" ">> }

Conditions == {Flatten(cs) : cs \in UNION {[1..n -> CondVocabulary] : n \in 0..MaxTerms}}

\* parameter sets a request can carry
ParamSets ==
  { <<>>,
    [k \in {<<"m", "y", "s", "q", "l", "_", "p", "o", "r", "t">>} |-> NumberOf(3306)],
    [k \in {<<"m", "y", "s", "q", "l", "_", "p", "o", "r", "t">>, <<"d", "e", "b", "i", "a", "n", "_", "b", "a", "s", "e", "d">>} |->
       IF k = <<"m", "y", "s", "q", "l", "_", "p", "o", "r", "t">> THEN NumberOf(3307) ELSE BooleanOf(FALSE)] }

InitCondition ==
  /\ cond \in {[condition |-> c, params |-> p, out |-> FALSE, done |-> FALSE] :
                 c \in Conditions, p \in ParamSets}
  /\ text = <<>>
  /\ report = NoReport
  /\ masked = NoMask
  /\ tmpl = NoTmpl
  /\ sweep = NoSweep
  /\ drain = NoDrain
  /\ retry = NoRetry
  /\ health = NoHealth
  /\ cache = NoCache
  /\ requests = NoRequests
  /\ PoolInit
  /\ InstIdle

\* processConditionals evaluates the condition of an {{#if}} block
EvaluateCondition ==
  /\ ~cond.done
  /\ cond' = [cond EXCEPT !.out = evaluateCondition(cond.condition, cond.params),
                          !.done = TRUE]
  /\ UNCHANGED <<text, report, masked, tmpl, sweep, drain, retry, health, cache, requests, poolVars>>
  /\ UNCHANGED <<apc, opts, failures, rbRunning, result, trace, acquireCalls,
                 pool0, unhandled, script, gateCalls>>

NextCondition == EvaluateCondition

SpecCondition == InitCondition /\ [][NextCondition]_vars

\* the comparison operator evaluateCondition finds in the condition, if any
OperatorOf(c) ==
  IF Includes(c, <<"=", "=">>) THEN <<"=", "=">>
  ELSE IF Includes(c, <<"!", "=">>) THEN <<"!", "=">>
  ELSE IF Includes(c, <<">">>) THEN <<">">>
  ELSE IF Includes(c, <<"<">>) THEN <<"<">>
  ELSE <<>>

\* an operand that can only be a parameter name
IsName(e) ==
  /\ e # <<>>
  /\ \A k \in 1..Len(e) : e[k] \notin {" ", "'", "\"", "=", "!", "<", ">"}
  /\ NumberOfString(e).t # "number"
  /\ e \notin {<<"t", "r", "u", "e">>, <<"f", "a", "l", "s", "e">>}

NameOf(e) == IF StartsWith(e, <<"p", "a", "r", "a", "m", "s", ".">>) THEN SubSeq(e, 8, Len(e)) ELSE e

AbsentName(e, params) == IsName(e) /\ NameOf(e) \notin DOMAIN params

\* a condition that names nothing the parameter set knows: no operator and
\* not a parameter, or a comparison with an operand that is the name of a
\* parameter the set does not hold
UnknownCondition(c, params) ==
  /\ c \notin DOMAIN params
  /\ \/ OperatorOf(c) = <<>>
     \/ LET p == SplitTrim(c, OperatorOf(c))
        IN AbsentName(p.left, params) \/ AbsentName(p.right, params)

\* C21: every unknown condition, a comparison whose operands are names of
\* parameters that are not in the parameter set included, evaluates to false
C21_UnknownConditionIsFalse ==
  (cond.done /\ UnknownCondition(cond.condition, cond.params)) => ~cond.out
\* --------------------------------------- idle-eviction sweep and cleanup()
\* (DockerContainerProvider.cleanupIdleContainers, stopCleanupInterval and
\* cleanup), run next to one caller of getContainer

\* idleThreshold, 30 minutes, in clock units of 30 minutes
IdleThreshold == 1

\* !item.busy && idleTime > idleThreshold
IsIdleContainer(item, t) == ~item.busy /\ t - item.lastUsed > IdleThreshold

\* Array.prototype.sort by lastUsed, oldest first (stable)
RECURSIVE InsertByLastUsed(_, _)
InsertByLastUsed(s, item) ==
  IF s = <<>> THEN <<item>>
  ELSE IF item.lastUsed < Head(s).lastUsed THEN <<item>> \o s
  ELSE <<Head(s)>> \o InsertByLastUsed(Tail(s), item)

RECURSIVE SortByLastUsed(_)
SortByLastUsed(s) ==
  IF s = <<>> THEN s
  ELSE InsertByLastUsed(SortByLastUsed(SubSeq(s, 1, Len(s) - 1)), s[Len(s)])

\* this.pool.filter(...) followed by the sort
idleContainers(pl, t) ==
  SortByLastUsed(SelectSeq(pl, LAMBDA item : IsIdleContainer(item, t)))

\* imageCounts: idle containers per image
imageCounts(idle) ==
  [im \in Images |-> Cardinality({i \in 1..Len(idle) : idle[i].image = im})]

\* the loop `continue`s over every entry that is the last of its image
RECURSIVE SkipKept(_, _)
SkipKept(q, counts) ==
  IF q = <<>> THEN q
  ELSE IF counts[Head(q).image] <= 1 THEN SkipKept(Tail(q), counts)
  ELSE q

\* the frame of a step that touches only the sweep, cleanup() and the table
SweepFrame ==
  /\ UNCHANGED <<text, report, masked, tmpl, cond, retry, health, cache, requests>>
  /\ UNCHANGED <<now, nextId, pc, img, sel, env, rpc, timer, releases, outcome>>
  /\ UNCHANGED <<apc, opts, failures, rbRunning, result, trace, acquireCalls,
                 pool0, unhandled, script, gateCalls>>

\* the interval timer fires: cleanupIdleContainers runs up to its first
\* await (a sweep is taken to be over before the timer fires again)
StartSweep ==
  /\ sweep.timer
  /\ sweep.pc \in {"idle", "done"}
  /\ LET idle == idleContainers(pool, now)
         counts == imageCounts(idle)
         q == SkipKept(idle, counts)
     IN sweep' = [timer |-> TRUE, pc |-> IF q = <<>> THEN "done" ELSE "removing",
                  queue |-> q, counts |-> counts, before |-> pool,
                  at |-> now,
                  stopped |-> IF q = <<>> THEN <<>> ELSE <<Head(q)>>,
                  removed |-> <<>>]
  /\ UNCHANGED <<pool, drain>>
  /\ SweepFrame

\* await item.container.stop(); await item.container.remove() are over: on
\* success the entry is spliced out of the table and the count decreased,
\* on failure the error is logged; the loop goes on to the next entry it
\* does not keep and calls stop() on it (stopped records each entry as the
\* table holds it when its stop() is called)
SweepRemoveDone(ok) ==
  /\ sweep.pc = "removing"
  /\ LET item == Head(sweep.queue)
         k == IndexOf(pool, item.id)
         counts == IF ok THEN [sweep.counts EXCEPT ![item.image] = @ - 1]
                   ELSE sweep.counts
         q == SkipKept(Tail(sweep.queue), counts)
         next == IndexOf(pool, Head(q).id)
     IN /\ pool' = IF ok THEN RemoveItem(pool, item.id) ELSE pool
        /\ sweep' = [sweep EXCEPT
                       !.pc = IF q = <<>> THEN "done" ELSE "removing",
                       !.queue = q,
                       !.counts = counts,
                       !.stopped = IF q = <<>> THEN @
                                   ELSE Append(@, IF next = 0 THEN Head(q)
                                                  ELSE pool[next]),
                       !.removed = IF ok
                                   THEN Append(@, IF k = 0 THEN item ELSE pool[k])
                                   ELSE @]
  /\ UNCHANGED drain
  /\ SweepFrame

\* the callers whose getContainer call has begun
StartedCalls == {p \in Callers : pc[p] # "idle"}

\* cleanup() up to its first await: the timer is cleared and the table
\* copied; with nothing to remove it empties the table and returns
Cleanup ==
  /\ drain.pc = "idle"
  /\ sweep' = [sweep EXCEPT !.timer = FALSE]
  /\ drain' = [pc |-> IF pool = <<>> THEN "returned" ELSE "removing",
               queue |-> pool, copy |-> pool, attempted |-> {}, failed |-> {},
               overlapped |-> IF pool = <<>> THEN StartedCalls ELSE {}]
  /\ pool' = IF pool = <<>> THEN <<>> ELSE pool
  /\ SweepFrame

\* a loop that gives up at the first entry whose stop or remove fails
cleanupStopsAtFailure(d, ok) ==
  [d EXCEPT !.queue = IF ok THEN Tail(@) ELSE <<>>,
            !.attempted = @ \cup {Head(d.queue).id},
            !.failed = IF ok THEN @ ELSE @ \cup {Head(d.queue).id},
            !.pc = IF ok /\ Tail(d.queue) # <<>> THEN "removing" ELSE "returned"]

\* stop({t: 10}) and remove({force}) of one entry of the copy are over (a
\* failure is logged); after the last entry the table is set to [] (the
\* calls of getContainer begun by then are noted in overlapped)
cleanupItem(d, ok) ==
  [d EXCEPT !.queue = Tail(@),
            !.attempted = @ \cup {Head(d.queue).id},
            !.failed = IF ok THEN @ ELSE @ \cup {Head(d.queue).id},
            !.pc = IF Tail(d.queue) = <<>> THEN "returned" ELSE "removing"]

CleanupItemDone(ok) ==
  /\ drain.pc = "removing"
  /\ drain' = [cleanupItem(drain, ok) EXCEPT
                  !.overlapped = IF Tail(drain.queue) = <<>> THEN StartedCalls ELSE @]
  /\ pool' = IF drain'.pc = "returned" THEN <<>> ELSE pool
  /\ UNCHANGED sweep
  /\ SweepFrame

\* tables the provider can hold when the timer fires: entries in creation
\* order, each just used or last used, at one of two times, a threshold and
\* more ago
SweepPools(t) ==
  UNION {{pl \in [1..n -> [id : 1..MaxIds, busy : BOOLEAN, image : Images,
                           lastUsed : {0, 1, t}]] :
            \A i \in 1..n : pl[i].id = i} : n \in 0..MaxPoolSize}

InitSweep ==
  /\ now = MaxClock + IdleThreshold + 1
  /\ pool \in SweepPools(now)
  /\ nextId = Len(pool) + 1
  /\ ProcsAtRest
  /\ InstIdle
  /\ ScanIdle

NextSweep ==
  \/ StartSweep
  \/ \E ok \in BOOLEAN : SweepRemoveDone(ok)
  \/ Cleanup
  \/ \E ok \in BOOLEAN : CleanupItemDone(ok)
  \/ \E image \in Images : GetContainer(1, image)
  \/ PoolStep(1)

SpecSweep == InitSweep /\ [][NextSweep]_vars

\* the entries of a table that are not leased
IdleIn(pl) == {i \in 1..Len(pl) : ~pl[i].busy}

\* C22: whatever a sweep removes is, when it is removed, idle and idle for
\* longer than the threshold, and of every image that had an idle entry when
\* the sweep began the sweep leaves one of those idle entries alone
C22_SweepRemovesOnlyIdleKeepsOne ==
  /\ \A r \in 1..Len(sweep.removed) :
       /\ ~sweep.removed[r].busy
       /\ sweep.at - sweep.removed[r].lastUsed > IdleThreshold
  /\ \A i \in IdleIn(sweep.before) :
       \E j \in IdleIn(sweep.before) :
         /\ sweep.before[j].image = sweep.before[i].image
         /\ \A r \in 1..Len(sweep.removed) :
              sweep.removed[r].id # sweep.before[j].id

\* cleanup() has returned
Drained == drain.pc = "returned"

\* C23: the step on which cleanup() returns leaves the table empty and has
\* attempted every entry of its copy, also when some stop or remove failed;
\* cleanup() of an empty table returns at once; and once cleanup() was
\* called no sweep starts and no sweep step changes the table
C23_DrainEmptiesPoolStopsSweep ==
  [][/\ (drain'.pc = "returned" /\ drain.pc # "returned") =>
          /\ pool' = <<>>
          /\ \A i \in 1..Len(drain'.copy) : drain'.copy[i].id \in drain'.attempted
          /\ ~sweep'.timer
     /\ (drain.pc = "idle" /\ pool = <<>> /\ drain'.pc # "idle") => Drained'
     /\ (drain.pc # "idle") =>
          /\ ~(sweep.pc \in {"idle", "done"} /\ sweep'.pc = "removing")
          /\ ~(sweep'.pc = "done" /\ sweep.pc = "idle")
          /\ sweep'.before = sweep.before
     /\ (Drained /\ sweep' # sweep) => pool' = pool]_vars

\* cleanup() returned after removing one entry and failing on another
C23_Witness ==
  /\ Drained
  /\ drain.failed # {}
  /\ drain.attempted \ drain.failed # {}
  /\ pool = <<>>

\* the table entry of id, or none
EntryOf(pl, id) == {pl[i] : i \in {j \in 1..Len(pl) : pl[j].id = id}}

\* C24: the timeout of a run changes no table entry but that of the run's
\* own environment, and once the timeout has fired, no later step of that
\* run (its stream ending or erroring, the inspect answering) changes the
\* entry of the environment while another caller holds it
C24_TimedOutRunLeavesOthersAlone ==
  [][\A p \in Callers :
       /\ (timer[p] = "armed" /\ timer'[p] = "fired") =>
            /\ Len(pool') = Len(pool)
            /\ \A i \in 1..Len(pool) : pool[i].id # env[p] => pool'[i] = pool[i]
       /\ (timer[p] = "fired" /\ rpc'[p] # rpc[p]) =>
            \A q \in Callers \ {p} :
              Holds(q, env[p]) => EntryOf(pool', env[p]) = EntryOf(pool, env[p])]_vars

\* C25: in one attempt the install script is executed once when Executing
\* is reached, and never a second time.
C25_InstallScriptRunsOnce == Entered("Executing") <= 1

\* getContainer failed for the attempt
AcquireFailed == result.cause = "acquire"

\* C26: when acquiring the environment fails, the attempt ends Failed right
\* after Provisioning: no install script was executed, no verification was
\* run and no rollback was invoked or is running.
C26_AcquireFailureRunsNothing ==
  AcquireFailed =>
    /\ apc = "returned"
    /\ ~result.success
    /\ LastPhases(2) = <<"Provisioning", "Failed">>
    /\ Entered("Executing") = 0
    /\ Entered("Verifying") = 0
    /\ Entered("RollingBack") = 0
    /\ rbRunning = 0
    /\ failures = <<>>

\* getContainer threw with rollback and verification enabled in the request
C26_Witness ==
  /\ AcquireFailed
  /\ opts.rollback
  /\ opts.verify
  /\ pc[Att] = "failed"

\* the install step succeeded at its first execution and the verification
\* that followed reported a failure, with rollback enabled (only a failed
\* verification leads from Verifying to RollingBack)
VerificationFailed ==
  /\ opts.verify
  /\ opts.rollback
  /\ failures = <<>>
  /\ \E i \in 1..(Len(trace) - 1) : trace[i] = "Verifying" /\ trace[i + 1] = "RollingBack"

\* C27: after a successful install step and a failed verification, with
\* verification and rollback enabled, the rollback is invoked once, after
\* the verification, the attempt never ends Completed, and it ends Failed
\* with the install output followed by the verification output as its logs.
C27_VerifyFailureRollsBackOnce ==
  VerificationFailed =>
    /\ Entered("RollingBack") = 1
    /\ Entered("Completed") = 0
    /\ apc = "returned" =>
         /\ LastPhases(3) = <<"Verifying", "RollingBack", "Failed">>
         /\ ~result.success
         /\ result.logs = <<"install", "verify">>

\* C28: with rollback disabled no rollback is ever invoked or running, and
\* an attempt whose install step failed, or whose verification failed, ends
\* Failed reporting that failure.
C28_NoRollbackWhenDisabled ==
  ~opts.rollback =>
    /\ Entered("RollingBack") = 0
    /\ rbRunning = 0
    /\ (apc = "returned" /\ failures # <<>>) =>
         /\ LastPhases(1) = <<"Failed">>
         /\ ~result.success
         /\ result.cause = "install"
    /\ (apc = "returned" /\ LastPhases(2) = <<"Verifying", "Failed">>) =>
         /\ ~result.success
         /\ result.cause \in {"verify", "verifyError"}

\* the attempt's install execution or verification is in progress
StepInProgress == apc \in {"installing", "verifying"}

\* C29: a rollback runs only while neither the install execution nor the
\* verification is in progress, at most one rollback runs at a time, and
\* none is still running when the attempt's result is returned.
C29_PhasesNeverOverlap ==
  /\ rbRunning <= 1
  /\ rbRunning > 0 => ~StepInProgress
  /\ apc = "returned" => rbRunning = 0

\* ------------------------------------------------------- withErrorHandling
\* (the two functions of that name in the error-handling utilities: the one
\* with rollback / errorHandler options, part_004:42, and the one with
\* onError / onRetry / onSuccess, part_004:156). The operation is any
\* promise-returning function; the callbacks are taken to return normally.

MaxRetries == 3
MaxRetryDelay == 2

\* the argument of setTimeout before the next attempt
retryWait(by, retryDelay, attempt) ==
  IF by = "onError" THEN retryDelay * (2 ^ attempt) ELSE retryDelay

InitRetry ==
  /\ retry \in {[by |-> by, retries |-> r, retryDelay |-> d, pc |-> "idle",
                 attempt |-> 0, calls |-> 0, waits |-> <<>>, errors |-> <<>>,
                 out |-> "none"] :
                  by \in {"rollback", "onError"}, r \in 0..MaxRetries,
                  d \in 1..MaxRetryDelay}
  /\ text = <<>>
  /\ report = NoReport
  /\ masked = NoMask
  /\ tmpl = NoTmpl
  /\ cond = NoCond
  /\ sweep = NoSweep
  /\ drain = NoDrain
  /\ health = NoHealth
  /\ cache = NoCache
  /\ requests = NoRequests
  /\ PoolInit
  /\ InstIdle

RetryFrame ==
  /\ UNCHANGED <<text, report, masked, tmpl, cond, sweep, drain, health, cache, requests, poolVars>>
  /\ UNCHANGED <<apc, opts, failures, rbRunning, result, trace, acquireCalls,
                 pool0, unhandled, script, gateCalls>>

\* withErrorHandling(operation, options) is called: attempt 0 calls the
\* operation
WithErrorHandling ==
  /\ retry.pc = "idle"
  /\ retry' = [retry EXCEPT !.pc = "running", !.calls = 1]
  /\ RetryFrame

\* await operation() settled: a result is returned; an error is kept as
\* lastError (the error of the k-th call is named k) and, when
\* attempt < retries, the wrapper waits, otherwise the loop is over and it
\* throws lastError (the first wrapper after its best-effort rollback)
OperationDone(ok) ==
  /\ retry.pc = "running"
  /\ retry' =
       IF ok THEN [retry EXCEPT !.pc = "returned", !.out = "ok"]
       ELSE IF retry.attempt < retry.retries
       THEN [retry EXCEPT !.pc = "waiting",
                          !.errors = Append(@, retry.calls),
                          !.waits = Append(@, retryWait(retry.by, retry.retryDelay,
                                                        retry.attempt))]
       ELSE [retry EXCEPT !.pc = "thrown",
                          !.errors = Append(@, retry.calls),
                          !.out = "error"]
  /\ RetryFrame

\* the setTimeout promise resolved: attempt++, the operation is called again
RetryTimerDone ==
  /\ retry.pc = "waiting"
  /\ retry' = [retry EXCEPT !.pc = "running", !.attempt = @ + 1, !.calls = @ + 1]
  /\ RetryFrame

NextRetry ==
  \/ WithErrorHandling
  \/ \E ok \in BOOLEAN : OperationDone(ok)
  \/ RetryTimerDone

SpecRetry == InitRetry /\ [][NextRetry]_vars

\* C30: for configured retries r the wrapper invokes the operation at most
\* r + 1 times; it returns at the first success, with no invocation after
\* it; the wait before attempt k + 1 is retryDelay * 2^k; and it throws only
\* after r + 1 failed invocations, the error thrown being the last one.
C30_RetryBoundedExponential ==
  /\ retry.calls <= retry.retries + 1
  /\ retry.pc = "returned" => retry.calls = Len(retry.errors) + 1
  /\ \A k \in 1..Len(retry.waits) :
       retry.waits[k] = retry.retryDelay * (2 ^ (k - 1))
  /\ retry.pc = "thrown" =>
       /\ retry.calls = retry.retries + 1
       /\ Len(retry.errors) = retry.calls
       /\ retry.errors[Len(retry.errors)] = retry.calls

\* C31: when the health check of the idle entry a getContainer call selected
\* says healthy, the call returns that entry's id with the entry marked
\* busy, the table keeps its size and no environment is created; when it
\* says unhealthy, the entry is out of the table before the call goes on to
\* create, and the id the call later returns is not the unhealthy one.
C31_ReuseHealthyDestroyUnhealthy ==
  [][\A p \in Callers :
       /\ (pc[p] = "health" /\ pc'[p] = "leased") =>
            /\ env'[p] = sel[p]
            /\ Busy(pool', sel[p])
            /\ Len(pool') = Len(pool)
            /\ nextId' = nextId
       /\ (pc[p] = "health" /\ pc'[p] # "health") =>
            (pc'[p] = "leased" \/ pc'[p] = "removing")
       /\ (pc[p] = "removing" /\ pc'[p] # "removing") =>
            /\ sel[p] \notin PoolIds(pool')
            /\ sel'[p] # sel[p]
            /\ env'[p] # sel[p]]_vars

\* ------------------------------------------------------ isContainerHealthy
\* (DockerContainerProvider.isContainerHealthy, on the answers of the
\* container runtime)

\* this.maxContainerAge, one hour, in units of one hour
MaxContainerAge == 1

\* a health check whose catch blocks answer healthy
healthFailOpen(h) ==
  IF h.inspect = "throws" THEN TRUE
  ELSE IF ~h.running THEN FALSE
  ELSE IF h.status # "absent" THEN h.status = "healthy"
  ELSE IF h.age > MaxContainerAge THEN FALSE
  ELSE IF "throws" \in {h.exec, h.start, h.execInspect} THEN TRUE
  ELSE h.exitCode.known /\ h.exitCode.code = 0

\* container.inspect() throwing goes to the outer catch; then State.Running,
\* State.Health, the age, and the echo probe, whose exec / start / inspect
\* throwing goes to the inner catch; the probe's stream resolves the wait on
\* 'end' and on 'error' alike; ExitCode is null while the exec still runs
isContainerHealthy(h) ==
  IF h.inspect = "throws" THEN FALSE
  ELSE IF ~h.running THEN FALSE
  ELSE IF h.status # "absent" THEN h.status = "healthy"
  ELSE IF h.age > MaxContainerAge THEN FALSE
  ELSE IF "throws" \in {h.exec, h.start, h.execInspect} THEN FALSE
  ELSE h.exitCode.known /\ h.exitCode.code = 0

\* what the runtime can answer to one health check
HealthAnswers ==
  [inspect : {"ok", "throws"}, running : BOOLEAN,
   status : {"absent", "healthy", "unhealthy", "starting"},
   age : 0..(MaxContainerAge + 1),
   exec : {"ok", "throws"}, start : {"ok", "throws"}, stream : {"end", "error"},
   execInspect : {"ok", "throws"},
   exitCode : [known : BOOLEAN, code : 0..1], out : {"none"}]

InitHealth ==
  /\ health \in HealthAnswers
  /\ ~health.exitCode.known => health.exitCode.code = 0
  /\ text = <<>>
  /\ report = NoReport
  /\ masked = NoMask
  /\ tmpl = NoTmpl
  /\ cond = NoCond
  /\ sweep = NoSweep
  /\ drain = NoDrain
  /\ retry = NoRetry
  /\ cache = NoCache
  /\ requests = NoRequests
  /\ PoolInit
  /\ InstIdle

\* isContainerHealthy(containerId) resolves
IsContainerHealthy ==
  /\ health.out = "none"
  /\ health' = [health EXCEPT !.out = IF isContainerHealthy(health)
                                      THEN "healthy" ELSE "unhealthy"]
  /\ UNCHANGED <<text, report, masked, tmpl, cond, sweep, drain, retry, cache, requests, poolVars>>
  /\ UNCHANGED <<apc, opts, failures, rbRunning, result, trace, acquireCalls,
                 pool0, unhandled, script, gateCalls>>

NextHealth == IsContainerHealthy

SpecHealth == InitHealth /\ [][NextHealth]_vars

\* the check got as far as the probe command
ProbeReached ==
  /\ health.inspect = "ok"
  /\ health.running
  /\ health.status = "absent"
  /\ health.age <= MaxContainerAge

ProbeThrew == "throws" \in {health.exec, health.start, health.execInspect}

NextShared ==
  \/ NextInstall
  \/ \E image \in Images : GetContainer(1, image)
  \/ PoolStep(1)

\* the provider holds at most one environment, idle, when the request
\* arrives
InitShared ==
  /\ InitInstall
  /\ now = 0
  /\ Len(pool) <= 1
  /\ \A i \in 1..Len(pool) : ~pool[i].busy

SpecShared == InitShared /\ [][NextShared]_vars

\* the attempt has its environment and has not reached its terminal state
AttemptInProgress == apc \in {"installing", "backoff", "verifying", "vrollback"}

\* C33: while an attempt is between Provisioning and its terminal state,
\* the environment it acquired has its entry in the table (nothing removed
\* or replaced it) and no other caller has been handed it.
C33_AttemptKeepsItsEnvironment ==
  AttemptInProgress =>
    /\ env[Att] \in PoolIds(pool)
    /\ \A q \in Callers : ~(pc[q] = "leased" /\ env[q] = env[Att])

\* C34: at the step on which getContainer returns an id, the table holds an
\* entry of that id and the entry is marked busy.
C34_ReturnedIdIsBusyEntry ==
  [][\A p \in Callers :
       (pc[p] # "leased" /\ pc'[p] = "leased") =>
         (env'[p] \in PoolIds(pool') /\ Busy(pool', env'[p]))]_vars

\* C35: no entry is busy at the moment the sweep calls stop() on it.
C35_SweepStopsNoBusyEntry ==
  \A r \in 1..Len(sweep.stopped) : ~sweep.stopped[r].busy

\* a getContainer call is between its first await and its return or throw
InFlight(p) == pc[p] \in {"health", "removing", "creating", "stopping", "replacing"}

\* C36: once cleanup() has returned and every getContainer call that began
\* before it returned is over (none having begun after), the table is empty.
C36_EmptyAfterDrainAndAcquires ==
  (/\ Drained
   /\ \A p \in Callers : ~InFlight(p)
   /\ StartedCalls \subseteq drain.overlapped) => pool = <<>>

\* C37: when a getContainer call that stopped and removed the least
\* recently used environment ends, by returning or by throwing, the table
\* holds no entry of that environment.
C37_NoEntryOfDestroyedEnvironment ==
  [][\A p \in Callers :
       (pc[p] = "replacing" /\ pc'[p] \in {"leased", "failed"}) =>
         sel[p] \notin PoolIds(pool')]_vars
\* ------------------------------------------------- rendered-script cache
\* (TemplateScriptGenerator.generateScript, getCacheKey and cacheScript)

\* largest configured cacheSize
MaxCacheSize == 2

\* generateScript calls in one run
MaxGenerations == 3

LicenseKey == <<"l", "i", "c", "e", "n", "s", "e", "_", "k", "e", "y">>

OsKey == <<"o", "s">>

DebugKey == <<"d", "e", "b", "u", "g">>

Integrations == {"infra", "mysql"}

InstallOperation == "install"

\* {{key}} in a template
Hole(key) == [k |-> "hole", s |-> key, then |-> <<>>, else |-> <<>>]

\* text of a template outside placeholders and blocks
Plain(s) == [k |-> "text", s |-> s, then |-> <<>>, else |-> <<>>]

\* {{#if condition}}then{{else}}else{{/if}} in a template
IfBlock(condition, then, else) ==
  [k |-> "if", s |-> condition, then |-> then, else |-> else]

\* String(value) of a string or a boolean
StringValue(v) ==
  CASE v.t = "string" -> v.s
    [] v.t = "boolean" -> IF v.b THEN <<"t", "r", "u", "e">> ELSE <<"f", "a", "l", "s", "e">>

\* the placeholder loop of generateScript on one piece of the template: a
\* {{key}} whose parameter is a string, number or boolean becomes
\* String(value), any other {{key}} stays as written
replacePlaceholder(piece, params) ==
  IF piece.k = "hole" /\ piece.s \in DOMAIN params
       /\ params[piece.s].t \in {"string", "number", "boolean"}
  THEN Plain(StringValue(params[piece.s]))
  ELSE piece

\* what is left of one piece in the script text
PieceText(piece) ==
  CASE piece.k = "text" -> piece.s
    [] piece.k = "hole" -> <<"{", "{">> \o piece.s \o <<"}", "}">>

\* processConditionals on one piece: an if block becomes its if branch or
\* its else branch as evaluateCondition decides
processConditionals(piece, params) ==
  IF piece.k = "if"
  THEN IF evaluateCondition(piece.s, params) THEN piece.then ELSE piece.else
  ELSE PieceText(piece)

\* the script generateScript builds from a template: placeholders first,
\* then conditional blocks (the parameter values drawn here hold no braces,
\* so the order in which the parameters are walked makes no difference)
RenderTemplate(template, params) ==
  Flatten([i \in 1..Len(template) |->
             processConditionals(replacePlaceholder(template[i], params), params)])

\* getCacheKey: integration, operation and the JSON text of the parameters
\* without license_key (the names drawn here hold no colon, and
\* JSON.stringify tells the drawn values apart)
getCacheKey(integration, operation, params) ==
  <<integration, operation, [k \in DOMAIN params \ {LicenseKey} |-> params[k]]>>

\* cacheScript: at the maximum size the first key of the map goes, then the
\* key is set (a Map keeps its keys in insertion order)
cacheScript(entries, max, key, rendered) ==
  (IF Len(entries) >= max THEN Tail(entries) ELSE entries)
    \o <<[key |-> key, script |-> rendered]>>

\* the os argument findTemplate is called with (params.os): only undashed
\* names are drawn
OsArgument(params) ==
  IF OsKey \in DOMAIN params /\ Truthy(params[OsKey]) THEN "plain" ELSE "absent"

\* the template files of an integration that exist, by level
LevelsOf(files, integration) ==
  {l \in {"os", "default"} : files[<<integration, l>>] # <<>>}
    \cup {l \in {"generic"} : files[<<"generic", l>>] # <<>>}

\* fs.readFileSync of the path findTemplate found
ReadTemplate(files, integration, level) ==
  IF level = "generic" THEN files[<<"generic", "generic">>]
  ELSE files[<<integration, level>>]

TemplatePaths ==
  {<<i, l>> : i \in Integrations, l \in {"os", "default"}} \cup {<<"generic", "generic">>}

\* the template files of a run; <<>> stands for a file that does not exist
TemplateTexts ==
  { <<>>,
    <<Plain(<<"k", "e", "y", "=">>), Hole(LicenseKey)>>,
    <<Plain(<<"o", "s", "=">>), Hole(OsKey), IfBlock(DebugKey, <<" ", "-", "v">>, <<>>)>> }

\* the parameters of a call
CacheParams ==
  { <<>>,
    [k \in {LicenseKey} |-> StringOf(<<"A">>)],
    [k \in {LicenseKey} |-> StringOf(<<"B">>)],
    [k \in {LicenseKey, OsKey} |->
       IF k = LicenseKey THEN StringOf(<<"A">>) ELSE StringOf(<<"l", "i", "n", "u", "x">>)],
    [k \in {LicenseKey, OsKey} |->
       IF k = LicenseKey THEN StringOf(<<"B">>) ELSE StringOf(<<"l", "i", "n", "u", "x">>)],
    [k \in {OsKey, DebugKey} |->
       IF k = OsKey THEN StringOf(<<"l", "i", "n", "u", "x">>) ELSE BooleanOf(TRUE)] }

InitCache ==
  /\ \E files \in [TemplatePaths -> TemplateTexts], max \in 1..MaxCacheSize :
       cache = [NoCache EXCEPT !.files = files, !.max = max]
  /\ text = <<>>
  /\ report = NoReport
  /\ masked = NoMask
  /\ tmpl = NoTmpl
  /\ cond = NoCond
  /\ sweep = NoSweep
  /\ drain = NoDrain
  /\ retry = NoRetry
  /\ health = NoHealth
  /\ requests = NoRequests
  /\ PoolInit
  /\ InstIdle

\* what generateScript builds when it does not find the key in its cache
freshScript(files, integration, params) ==
  LET found == findTemplate(LevelsOf(files, integration), OsArgument(params)) IN
  IF found.found = "none" THEN [out |-> <<>>, error |-> found.error]
  ELSE [out |-> RenderTemplate(ReadTemplate(files, integration, found.found), params),
        error |-> "none"]

\* the position of a key in the map, 0 when the map does not have it
IndexOfKey(entries, key) ==
  IF \E i \in 1..Len(entries) : entries[i].key = key
  THEN CHOOSE i \in 1..Len(entries) : entries[i].key = key
  ELSE 0

\* generateScript (it has no await, so a call runs in one step)
GenerateScript(integration, params) ==
  /\ cache.n < MaxGenerations
  /\ LET key == getCacheKey(integration, InstallOperation, params)
         at == IndexOfKey(cache.entries, key)
         fresh == freshScript(cache.files, integration, params)
     IN cache' =
          IF at # 0
          THEN [cache EXCEPT !.n = @ + 1,
                  !.last = [integration |-> integration, params |-> params,
                            hit |-> TRUE, out |-> cache.entries[at].script,
                            error |-> "none"]]
          ELSE IF fresh.error # "none"
          THEN [cache EXCEPT !.n = @ + 1,
                  !.last = [integration |-> integration, params |-> params,
                            hit |-> FALSE, out |-> <<>>, error |-> fresh.error]]
          ELSE [cache EXCEPT !.n = @ + 1,
                  !.entries = cacheScript(@, cache.max, key, fresh.out),
                  !.last = [integration |-> integration, params |-> params,
                            hit |-> FALSE, out |-> fresh.out, error |-> "none"]]
  /\ UNCHANGED <<text, report, masked, tmpl, cond, sweep, drain, retry, health, requests, poolVars>>
  /\ UNCHANGED <<apc, opts, failures, rbRunning, result, trace, acquireCalls,
                 pool0, unhandled, script, gateCalls>>

NextCache == \E integration \in Integrations, params \in CacheParams :
               GenerateScript(integration, params)

SpecCache == InitCache /\ [][NextCache]_vars

\* C38: every generateScript call returns what a fresh render of its
\* parameters produces, also when it differs from an earlier call only in
\* license_key, and the cache never holds more than its maximum number of
\* entries, the oldest-inserted entry going first.
C38_CacheNeverChangesTheScript ==
  [][cache'.n > cache.n =>
       LET c == cache'.last
           fresh == freshScript(cache.files, c.integration, c.params)
       IN /\ c.out = fresh.out
          /\ c.error = fresh.error
          /\ Len(cache'.entries) <= cache.max
          /\ \/ cache'.entries = cache.entries
             \/ /\ Len(cache.entries) < cache.max
                /\ SubSeq(cache'.entries, 1, Len(cache.entries)) = cache.entries
             \/ /\ Len(cache.entries) = cache.max
                /\ SubSeq(cache'.entries, 1, Len(cache.entries) - 1) = Tail(cache.entries)]_vars
\* -------------------------------------------- asynchronous installations
\* (AsyncInstallationController)

\* installIntegrationAsync calls in one run
MaxRequests == 2

\* what installIntegration can do: return a result with success true,
\* return one with success false, or throw
InstallOutcomes == {"success", "failure", "throws"}

\* the request ids issued so far (generateRequestId joins the clock and a
\* random number; ids are taken to be distinct and are numbered in the order
\* of their issue)
IssuedIds == 1..Len(requests.req)

\* updateInstallationStatus: the stored result of the id, if there is one,
\* gets the status and the message; written keeps every status the entry has
\* been given
updateInstallationStatus(req, requestId, status, message) ==
  IF requestId \in 1..Len(req)
  THEN [req EXCEPT ![requestId].status = status, ![requestId].message = message,
                   ![requestId].written = Append(@, status)]
  ELSE req

\* the status processInstallationAsync stores once installIntegration has
\* settled: completed or failed for a returned result, by its success, and
\* failed from the catch block for a throw
settledAlwaysCompleted(ending) == "completed"

settledStatus(ending) == IF ending = "success" THEN "completed" ELSE "failed"

\* the message stored with it
settledMessage(ending) == IF ending = "throws" THEN "Installation failed" ELSE "result"

InitAsync ==
  /\ requests = NoRequests
  /\ text = <<>>
  /\ report = NoReport
  /\ masked = NoMask
  /\ tmpl = NoTmpl
  /\ cond = NoCond
  /\ sweep = NoSweep
  /\ drain = NoDrain
  /\ retry = NoRetry
  /\ health = NoHealth
  /\ cache = NoCache
  /\ PoolInit
  /\ InstIdle

AsyncFrame ==
  /\ UNCHANGED <<text, report, masked, tmpl, cond, sweep, drain, retry, health, cache, poolVars>>
  /\ UNCHANGED <<apc, opts, failures, rbRunning, result, trace, acquireCalls,
                 pool0, unhandled, script, gateCalls>>

\* installIntegrationAsync: the result object is stored as pending, then
\* processInstallationAsync runs up to its first await (it marks the same
\* object in_progress and calls installIntegration), and only then is the
\* object returned; returned keeps what the caller receives
InstallIntegrationAsync(callbackUrl) ==
  /\ Len(requests.req) < MaxRequests
  /\ LET requestId == Len(requests.req) + 1
         stored == Append(requests.req,
                     [status |-> "pending", message |-> "queued",
                      written |-> <<"pending">>, pc |-> "created",
                      callbackUrl |-> callbackUrl, outcome |-> "none"])
         started == [updateInstallationStatus(stored, requestId, "in_progress", "in progress")
                       EXCEPT ![requestId].pc = "installing"]
     IN requests' = [requests EXCEPT
                       !.req = started,
                       !.returned = Append(@, [requestId |-> requestId,
                                                status |-> started[requestId].status,
                                                message |-> started[requestId].message,
                                                written |-> started[requestId].written])]
  /\ AsyncFrame

\* the installIntegration call of a request returns or throws
InstallIntegrationSettles(requestId, ending) ==
  /\ requestId \in IssuedIds
  /\ requests.req[requestId].pc = "installing"
  /\ requests' = [requests EXCEPT !.req[requestId].pc = "settled",
                                  !.req[requestId].outcome = ending]
  /\ AsyncFrame

\* processInstallationAsync goes on after its await: it stores the final
\* status and, with a callback URL, starts notifyCallback
ProcessInstallationAsync(requestId) ==
  /\ requestId \in IssuedIds
  /\ requests.req[requestId].pc = "settled"
  /\ LET ending == requests.req[requestId].outcome
         updated == updateInstallationStatus(requests.req, requestId,
                      settledStatus(ending), settledMessage(ending))
     IN requests' = [requests EXCEPT
                       !.req = [updated EXCEPT ![requestId].pc =
                                  IF updated[requestId].callbackUrl THEN "notifying"
                                  ELSE "done"]]
  /\ AsyncFrame

\* the fetch of notifyCallback ends; a failure is logged and swallowed
NotifyCallbackDone(requestId, ok) ==
  /\ requestId \in IssuedIds
  /\ requests.req[requestId].pc = "notifying"
  /\ requests' = [requests EXCEPT !.req[requestId].pc = "done"]
  /\ AsyncFrame

\* getInstallationStatus: the stored result of the id, or null
GetInstallationStatus(requestId) ==
  /\ requests' = [requests EXCEPT
                    !.get = [id |-> requestId,
                             out |-> IF requestId \in IssuedIds
                                     THEN requests.req[requestId].status
                                     ELSE "null"]]
  /\ AsyncFrame

NextAsync ==
  \/ \E callbackUrl \in BOOLEAN : InstallIntegrationAsync(callbackUrl)
  \/ \E requestId \in 1..MaxRequests, ending \in InstallOutcomes :
       InstallIntegrationSettles(requestId, ending)
  \/ \E requestId \in 1..MaxRequests : ProcessInstallationAsync(requestId)
  \/ \E requestId \in 1..MaxRequests, ok \in BOOLEAN : NotifyCallbackDone(requestId, ok)
  \/ \E requestId \in 1..(MaxRequests + 1) : GetInstallationStatus(requestId)

SpecAsync == InitAsync /\ [][NextAsync]_vars

\* the event loop runs the continuation of an await whose promise has settled
SpecAsyncLive ==
  SpecAsync /\ \A requestId \in 1..MaxRequests : WF_vars(ProcessInstallationAsync(requestId))

StatusPaths ==
  { <<"pending">>, <<"pending", "in_progress">>,
    <<"pending", "in_progress", "completed">>,
    <<"pending", "in_progress", "failed">> }

Terminal(requestId) ==
  requestId \in IssuedIds /\ requests.req[requestId].status \in {"completed", "failed"}

\* C39: the status of a request only moves along pending, in_progress, then
\* completed or failed and never changes after that; it is completed
\* exactly when installIntegration returned success; it becomes completed
\* or failed once installIntegration has returned or thrown; and
\* getInstallationStatus gives null for an id that was never issued.
C39_StatusMovesForwardToTheEnd ==
  /\ [](\A requestId \in IssuedIds :
          LET r == requests.req[requestId] IN
          /\ r.written \in StatusPaths
          /\ r.status = r.written[Len(r.written)]
          /\ r.status \in {"completed", "failed"} =>
               (r.status = "completed" <=> r.outcome = "success"))
  /\ []((requests.get.out # "none" /\ requests.get.id \notin IssuedIds) =>
          requests.get.out = "null")
  /\ \A requestId \in 1..MaxRequests :
       (requestId \in IssuedIds /\ requests.req[requestId].pc = "settled")
         ~> Terminal(requestId)

\* one request completed, another failed by a throw, and a status was asked
\* for an id that was never issued
C39_Witness ==
  /\ \E a, b \in IssuedIds :
       /\ requests.req[a].written = <<"pending", "in_progress", "completed">>
       /\ requests.req[b].written = <<"pending", "in_progress", "failed">>
       /\ requests.req[b].outcome = "throws"
  /\ requests.get.id \notin IssuedIds
  /\ requests.get.out = "null"

\* C40: installIntegrationAsync returns a result with status pending and
\* the accepted-and-queued message, and the request becomes in_progress
\* only after that return.
C40_ReturnsPendingBeforeProgress ==
  \A i \in 1..Len(requests.returned) :
    /\ requests.returned[i].status = "pending"
    /\ requests.returned[i].message = "queued"
    /\ requests.returned[i].written = <<"pending">>

=============================================================================
